---------------------------- MODULE Spec2Model ----------------------------
(***************************************************************************)
(* Receipt extraction: the LLM reply normaliser (app/services/json_utils)  *)
(* and the regex heuristic parser (app/services/receipt_parser).           *)
(*                                                                         *)
(* Python str values are TLA+ strings; an index is 1-based here, so a      *)
(* Python "not found" (-1) is 0.  A Python float that holds a monetary     *)
(* amount is an integer number of thousandths plus two facts about the     *)
(* literal it came from (see Flt).                                         *)
(***************************************************************************)
EXTENDS Integers, Sequences, FiniteSets, TLC

VARIABLES
    entry,      \* which entry point was called: "llm" or "regex"
    response,   \* its argument: the LLM reply, or the raw text
    pc,         \* where the call stands
    json_str,   \* parse_json_response: the local json_str
    data,       \* parse_json_response: the local data, a JSON value
    result,     \* parse_json_response: the local result, then the record returned
    exc,        \* parse_json_response: the exception raised in the try body
    outcome,    \* "running", "returned" or "raised"
    rx_lines,   \* RegexReceiptParser.parse: the local lines
    rx_name,    \* RegexReceiptParser: the provider name
    rx_currency, \* RegexReceiptParser: the currency
    rx_address, \* RegexReceiptParser._extract_provider: the local address
    rx_vat_number, \* RegexReceiptParser._extract_provider: the local vat_number
    rx_items,   \* RegexReceiptParser.parse: the local items
    rx_total,   \* RegexReceiptParser.parse: the local total
    rx_vat,     \* RegexReceiptParser.parse: the local vat
    requests,   \* the calls of process_pdf in flight, one record each
    environ,    \* os.environ["OCR_BACKEND"], or Unset
    backend,    \* ocr_engine._backend, or Unset
    hy          \* a call of HybridReceiptParser.parse, or NoValue

vars == <<entry, response, pc, json_str, data, result, exc, outcome,
          rx_lines, rx_name, rx_currency, rx_address, rx_vat_number,
          rx_items, rx_total, rx_vat, requests, environ, backend, hy>>

\* the state of the router
RouterVars == <<requests, environ, backend>>

---------------------------------------------------------------------------
(* str primitives *)

Ch(s, i) == SubSeq(s, i, i)

\* str.strip(), str.lstrip(): the whitespace of the modelled alphabet
Whitespace == {" ", "\n", "\t", "\r"}

\* the least element of a non-empty set of positions, and the greatest
First(S) == CHOOSE i \in S : \A j \in S : i <= j

Last(S) == CHOOSE i \in S : \A j \in S : i >= j

\* the first position >= i that holds no whitespace, Len(s) + 1 when none
FirstNonWs(s, i) ==
    LET at == {j \in i..Len(s) : Ch(s, j) \notin Whitespace}
    IN  IF at = {} THEN (IF i > Len(s) THEN i ELSE Len(s) + 1) ELSE First(at)

\* the last position <= i that holds no whitespace, 0 when none
LastNonWs(s, i) ==
    LET at == {j \in 1..i : Ch(s, j) \notin Whitespace}
    IN  IF at = {} THEN 0 ELSE Last(at)

lstrip(s) == SubSeq(s, FirstNonWs(s, 1), Len(s))

strip(s) == SubSeq(s, FirstNonWs(s, 1), LastNonWs(s, Len(s)))

\* s[i-1:], s[:i]
From(s, i) == SubSeq(s, i, Len(s))

UpTo(s, i) == SubSeq(s, 1, IF i < Len(s) THEN i ELSE Len(s))

\* s.startswith(p, i-1)
StartsWithAt(s, p, i) ==
    /\ i >= 1
    /\ i + Len(p) - 1 <= Len(s)
    /\ SubSeq(s, i, i + Len(p) - 1) = p

startswith(s, p) == StartsWithAt(s, p, 1)

\* s.find(p, i-1) + 1: the least position >= i >= 1 where p occurs, 0 when none
find(s, p, i) ==
    LET at == {j \in i..(Len(s) - Len(p) + 1) : StartsWithAt(s, p, j)}
    IN  IF at = {} THEN 0 ELSE First(at)

\* s.rfind(p) + 1
rfind(s, p) ==
    LET at == {j \in 1..(Len(s) - Len(p) + 1) : StartsWithAt(s, p, j)}
    IN  IF at = {} THEN 0 ELSE Last(at)

contains(s, p) == find(s, p, 1) # 0

\* sep.join(seq)
RECURSIVE Join(_, _)
Join(seq, sep) ==
    IF Len(seq) = 0 THEN ""
    ELSE IF Len(seq) = 1 THEN seq[1]
    ELSE seq[1] \o sep \o Join(Tail(seq), sep)

---------------------------------------------------------------------------
(* parse_json_response, the steps before json.loads *)

ThinkOpen == "<think>"

ThinkClose == "</think>"

\* The markdown fence marker, three backticks.  A TLA+ string cannot hold a
\* backtick, so in every string of this module "~" stands for one backtick.
Fence == "~~~"

\* re.sub(r"<think>.*?</think>", "", s, flags=re.DOTALL): every leftmost,
\* shortest closed block is removed, scanning on from the end of each match
RECURSIVE sub_think(_, _)
sub_think(s, i) ==
    LET o == find(s, ThinkOpen, i)
        c == IF o = 0 THEN 0 ELSE find(s, ThinkClose, o + Len(ThinkOpen))
    IN  IF c = 0 THEN From(s, i)
        ELSE SubSeq(s, i, o - 1) \o sub_think(s, c + Len(ThinkClose))

\* A variant that leaves the closed blocks in: lines 97-99 without the re.sub
keep_closed_think(s) == strip(s)

strip_closed_think(s) == strip(sub_think(s, 1))

\* A variant that looks for the brace from the start of the text
unclosed_think_from_start(s) ==
    IF contains(s, ThinkOpen)
    THEN LET brace_pos == find(s, "{", 1)
         IN  IF brace_pos # 0 THEN From(s, brace_pos) ELSE ""
    ELSE s

\* lines 102-108
handle_unclosed_think(s) ==
    IF contains(s, ThinkOpen)
    THEN LET think_pos == find(s, ThinkOpen, 1)
             brace_pos == find(s, "{", think_pos)
         IN  IF brace_pos # 0 THEN From(s, brace_pos) ELSE ""
    ELSE s

\* s.split(Fence)[1] for an s that starts with the fence
split_fence_1(s) ==
    LET start == Len(Fence) + 1
        next  == find(s, Fence, start)
    IN  IF next = 0 THEN From(s, start) ELSE SubSeq(s, start, next - 1)

\* lines 111-114
strip_fences(s) ==
    IF startswith(s, Fence)
    THEN LET seg == split_fence_1(s)
         IN  IF startswith(seg, "json") THEN From(seg, 5) ELSE seg
    ELSE s

\* lines 117-122
locate_object(s) ==
    IF s # "" /\ ~startswith(lstrip(s), "{")
    THEN LET brace_start == find(s, "{", 1)
         IN  IF brace_start # 0 THEN From(s, brace_start) ELSE ""
    ELSE s

\* A variant that cuts after the first closing brace
strip_after_first_brace(s) ==
    IF s # ""
    THEN LET brace_end == find(s, "}", 1)
         IN  IF brace_end # 0 THEN UpTo(s, brace_end) ELSE s
    ELSE s

\* lines 125-128
strip_trailing(s) ==
    IF s # ""
    THEN LET brace_end == rfind(s, "}")
         IN  IF brace_end # 0 THEN UpTo(s, brace_end) ELSE s
    ELSE s

\* lines 94-128 in order: the text handed to the emptiness test and json.loads
sanitize(s) ==
    strip_trailing(locate_object(strip_fences(
        handle_unclosed_think(strip_closed_think(strip(s))))))

---------------------------------------------------------------------------
(* json.loads (line 133).  The decoder is the standard library's; what it   *)
(* does on the modelled alphabet is written out here: objects, arrays,      *)
(* strings without escape sequences, numbers without an exponent, and the   *)
(* literals true, false and null.  A JSON value is a tagged record.         *)

JNull == [t |-> "null"]

JBool(b) == [t |-> "bool", b |-> b]

\* A number literal: k thousandths; fine says that non-zero digits follow the
\* third fractional digit; isint says the literal has no fraction (a Python int).
JNum(isint, k, fine) == [t |-> "num", isint |-> isint, k |-> k, fine |-> fine]

JStr(str) == [t |-> "str", s |-> str]

JArr(a) == [t |-> "arr", a |-> a]

\* An object keeps its members in order, as <<key, value>> pairs
JObj(m) == [t |-> "obj", m |-> m]

Digits == {"0", "1", "2", "3", "4", "5", "6", "7", "8", "9"}

DigitVal(c) ==
    CASE c = "0" -> 0 [] c = "1" -> 1 [] c = "2" -> 2 [] c = "3" -> 3
      [] c = "4" -> 4 [] c = "5" -> 5 [] c = "6" -> 6 [] c = "7" -> 7
      [] c = "8" -> 8 [] c = "9" -> 9

IsDigitAt(s, i) == i <= Len(s) /\ Ch(s, i) \in Digits

\* the end (exclusive) of the run of digits that starts at i
DigitsEnd(s, i) ==
    LET at == {j \in i..Len(s) : Ch(s, j) \notin Digits}
    IN  IF at = {} THEN (IF i > Len(s) THEN i ELSE Len(s) + 1) ELSE First(at)

\* int(s[i..j-1]) for a run of digits
RECURSIVE DigitsValue(_, _, _)
DigitsValue(s, i, j) ==
    IF j <= i THEN 0 ELSE DigitsValue(s, i, j - 1) * 10 + DigitVal(Ch(s, j - 1))

\* the digit at position i when i < j, else 0
DigitBefore(s, i, j) == IF i < j THEN DigitVal(Ch(s, i)) ELSE 0

\* the first three fractional digits s[i..j-1] as thousandths
FracThousandths(s, i, j) ==
    DigitBefore(s, i, j) * 100 + DigitBefore(s, i + 1, j) * 10
        + DigitBefore(s, i + 2, j)

\* whether a non-zero digit follows the third fractional digit
FracFine(s, i, j) == \E n \in (i + 3)..(j - 1) : Ch(s, n) # "0"

ParseFail == [ok |-> FALSE, v |-> JNull, i |-> 0]

ParseOk(v, i) == [ok |-> TRUE, v |-> v, i |-> i]

\* NUMBER_RE: (-?(?:0|[1-9]\d*))(\.\d+)?  The match is taken in stages, each
\* stage an operator of the positions found so far: a the first digit, b the
\* end of the integer part, c the end of the fraction (c = b when none).
NumberValue(s, neg, a, b, c) ==
    LET mag == DigitsValue(s, a, b) * 1000 + FracThousandths(s, b + 1, c)
    IN  ParseOk(JNum(c = b, IF neg THEN -mag ELSE mag, FracFine(s, b + 1, c)), c)

NumberFraction(s, neg, a, b) ==
    IF b = a THEN ParseFail
    ELSE NumberValue(s, neg, a, b,
                     IF StartsWithAt(s, ".", b) /\ IsDigitAt(s, b + 1)
                     THEN DigitsEnd(s, b + 1) ELSE b)

NumberInteger(s, neg, a) ==
    NumberFraction(s, neg, a,
                   IF StartsWithAt(s, "0", a) THEN a + 1 ELSE DigitsEnd(s, a))

ParseNumber(s, i) ==
    IF StartsWithAt(s, "-", i) THEN NumberInteger(s, TRUE, i + 1)
    ELSE NumberInteger(s, FALSE, i)

\* py_scanstring, strict: up to the closing quote; a control character
\* inside the string is an error
StringEnd(s, i) ==
    LET e == find(s, "\"", i)
    IN  IF e # 0 /\ \A j \in i..(e - 1) : Ch(s, j) \notin {"\n", "\t", "\r"}
        THEN e ELSE 0

StringUpTo(s, i, e) ==
    IF e = 0 THEN ParseFail ELSE ParseOk(JStr(SubSeq(s, i + 1, e - 1)), e + 1)

\* s[i] is the opening quote
ParseString(s, i) == StringUpTo(s, i, StringEnd(s, i + 1))

RECURSIVE ParseValue(_, _)
RECURSIVE ParseMembers(_, _, _)
RECURSIVE ParseElements(_, _, _)

\* JSONObject, after a member: "}" ends the object, "," needs another member
AfterMember(s, acc, nxt) ==
    IF StartsWithAt(s, "}", nxt) THEN ParseOk(JObj(acc), nxt + 1)
    ELSE IF StartsWithAt(s, ",", nxt)
         THEN ParseMembers(s, FirstNonWs(s, nxt + 1), acc)
    ELSE ParseFail

AfterMemberValue(s, acc, key, val) ==
    IF val.ok
    THEN AfterMember(s, Append(acc, <<key, val.v>>), FirstNonWs(s, val.i))
    ELSE ParseFail

AfterKey(s, acc, key, col) ==
    IF StartsWithAt(s, ":", col)
    THEN AfterMemberValue(s, acc, key, ParseValue(s, FirstNonWs(s, col + 1)))
    ELSE ParseFail

MemberKey(s, acc, key) ==
    IF key.ok THEN AfterKey(s, acc, key.v.s, FirstNonWs(s, key.i)) ELSE ParseFail

\* JSONObject: a member must start at i; acc holds the members before it
ParseMembers(s, i, acc) ==
    IF StartsWithAt(s, "\"", i) THEN MemberKey(s, acc, ParseString(s, i))
    ELSE ParseFail

\* JSONArray, after an element
AfterElement(s, acc, nxt) ==
    IF StartsWithAt(s, "]", nxt) THEN ParseOk(JArr(acc), nxt + 1)
    ELSE IF StartsWithAt(s, ",", nxt)
         THEN ParseElements(s, FirstNonWs(s, nxt + 1), acc)
    ELSE ParseFail

ElementValue(s, acc, val) ==
    IF val.ok THEN AfterElement(s, Append(acc, val.v), FirstNonWs(s, val.i))
    ELSE ParseFail

\* JSONArray: an element must start at i
ParseElements(s, i, acc) == ElementValue(s, acc, ParseValue(s, i))

FirstMember(s, j) ==
    IF StartsWithAt(s, "}", j) THEN ParseOk(JObj(<<>>), j + 1)
    ELSE ParseMembers(s, j, <<>>)

FirstElement(s, j) ==
    IF StartsWithAt(s, "]", j) THEN ParseOk(JArr(<<>>), j + 1)
    ELSE ParseElements(s, j, <<>>)

\* scan_once: the value that starts exactly at i
ParseValue(s, i) ==
    IF i > Len(s) THEN ParseFail
    ELSE IF Ch(s, i) = "\"" THEN ParseString(s, i)
    ELSE IF Ch(s, i) = "{" THEN FirstMember(s, FirstNonWs(s, i + 1))
    ELSE IF Ch(s, i) = "[" THEN FirstElement(s, FirstNonWs(s, i + 1))
    ELSE IF StartsWithAt(s, "null", i) THEN ParseOk(JNull, i + 4)
    ELSE IF StartsWithAt(s, "true", i) THEN ParseOk(JBool(TRUE), i + 4)
    ELSE IF StartsWithAt(s, "false", i) THEN ParseOk(JBool(FALSE), i + 5)
    ELSE ParseNumber(s, i)

\* JSONDecoder.decode: one value, whitespace around it, nothing after it.
\* ok = FALSE is json.JSONDecodeError.
WholeText(s, r) == IF r.ok /\ FirstNonWs(s, r.i) > Len(s) THEN r ELSE ParseFail

json_loads(s) == WholeText(s, ParseValue(s, FirstNonWs(s, 1)))

---------------------------------------------------------------------------
(* app/schemas/receipt.py: the records, and ReceiptResponse.model_validate  *)
(* (line 134) as pydantic v2 applies these declarations in its default,     *)
(* lax mode: a field is looked up by its alias and, because of              *)
(* populate_by_name, else by its name; keys that name no field are ignored. *)

\* str | None
None == [some |-> FALSE, v |-> ""]

Some(str) == [some |-> TRUE, v |-> str]

\* A float: k thousandths; fine as in JNum.
Flt(k, fine) == [k |-> k, fine |-> fine]

\* float | None
NoneFlt == [some |-> FALSE, v |-> Flt(0, FALSE)]

SomeFlt(f) == [some |-> TRUE, v |-> f]

Valid(v) == [ok |-> TRUE, v |-> v]

Invalid == [ok |-> FALSE, v |-> None]

HasKey(m, key) == \E i \in 1..Len(m) : m[i][1] = key

\* dict semantics: of two members with one key the later one stays
Get(m, key) ==
    LET last == CHOOSE i \in 1..Len(m) :
                  /\ m[i][1] = key
                  /\ \A j \in (i + 1)..Len(m) : m[j][1] # key
    IN  m[last][2]

Absent == [present |-> FALSE, v |-> JNull]

Field(m, alias, name) ==
    IF HasKey(m, alias) THEN [present |-> TRUE, v |-> Get(m, alias)]
    ELSE IF HasKey(m, name) THEN [present |-> TRUE, v |-> Get(m, name)]
    ELSE Absent

\* a str holding a number, surrounding whitespace allowed
WholeNumber(t, r) == IF t # "" /\ r.ok /\ r.i = Len(t) + 1 THEN r ELSE ParseFail

NumberIn(t) == WholeNumber(t, ParseNumber(t, 1))

StrToNum(str) == NumberIn(strip(str))

\* str: a str only
as_str(f) ==
    IF f.present /\ f.v.t = "str" THEN Valid(f.v.s) ELSE Invalid

\* T | None = None, given the field and what T makes of it
Optional(f, none, r) ==
    IF ~f.present \/ f.v.t = "null" THEN Valid(none)
    ELSE IF r.ok THEN Valid([some |-> TRUE, v |-> r.v])
    ELSE Invalid

\* str | None = None
as_opt_str(f) == Optional(f, None, as_str(f))

\* float: a number, a bool, or a str that holds a number
num_as_float(r) == IF r.ok THEN Valid(Flt(r.v.k, r.v.fine)) ELSE Invalid

\* int: as float, when the value has no fractional part
num_as_int(r) ==
    IF r.ok /\ r.v.k % 1000 = 0 /\ ~r.v.fine
    THEN Valid(IF r.v.k >= 0 THEN r.v.k \div 1000 ELSE -((-r.v.k) \div 1000))
    ELSE Invalid

\* the number a JSON value is taken for where a number is required
as_number(f) ==
    IF ~f.present THEN ParseFail
    ELSE IF f.v.t = "num" THEN ParseOk(f.v, 0)
    ELSE IF f.v.t = "bool"
         THEN ParseOk(JNum(TRUE, IF f.v.b THEN 1000 ELSE 0, FALSE), 0)
    ELSE IF f.v.t = "str" THEN StrToNum(f.v.s)
    ELSE ParseFail

as_float(f) == num_as_float(as_number(f))

as_int(f) == num_as_int(as_number(f))

\* float | None = None
as_opt_float(f) == Optional(f, NoneFlt, as_float(f))

ItemOf(item, quantity, price) ==
    IF item.ok /\ quantity.ok /\ price.ok
    THEN Valid([item |-> item.v, quantity |-> quantity.v, price |-> price.v])
    ELSE Invalid

\* class Item
validate_Item(v) ==
    IF v.t # "obj" THEN Invalid
    ELSE ItemOf(as_str(Field(v.m, "Item", "item")),
                as_int(Field(v.m, "Quantity", "quantity")),
                as_float(Field(v.m, "Price", "price")))

ItemsOf(rs) ==
    IF \A i \in 1..Len(rs) : rs[i].ok
    THEN Valid([i \in 1..Len(rs) |-> rs[i].v]) ELSE Invalid

\* list[Item] = []
validate_items(f) ==
    IF ~f.present THEN Valid(<<>>)
    ELSE IF f.v.t # "arr" THEN Invalid
    ELSE ItemsOf([i \in 1..Len(f.v.a) |-> validate_Item(f.v.a[i])])

ServiceProviderOf(name, address, vat_number) ==
    IF name.ok /\ address.ok /\ vat_number.ok
    THEN Valid([name |-> name.v, address |-> address.v,
                vat_number |-> vat_number.v])
    ELSE Invalid

\* class ServiceProvider
validate_ServiceProvider(f) ==
    IF ~f.present \/ f.v.t # "obj" THEN Invalid
    ELSE ServiceProviderOf(as_str(Field(f.v.m, "Name", "name")),
                           as_opt_str(Field(f.v.m, "Address", "address")),
                           as_opt_str(Field(f.v.m, "VATNumber", "vat_number")))

TransactionDetailsOf(items, currency, total_amount, vat) ==
    IF items.ok /\ currency.ok /\ total_amount.ok /\ vat.ok
    THEN Valid([items |-> items.v, currency |-> currency.v,
                total_amount |-> total_amount.v, vat |-> vat.v])
    ELSE Invalid

\* class TransactionDetails
validate_TransactionDetails(f) ==
    IF ~f.present \/ f.v.t # "obj" THEN Invalid
    ELSE TransactionDetailsOf(
             validate_items(Field(f.v.m, "Items", "items")),
             as_opt_str(Field(f.v.m, "Currency", "currency")),
             as_opt_float(Field(f.v.m, "TotalAmount", "total_amount")),
             as_opt_str(Field(f.v.m, "VAT", "vat")))

ReceiptResponseOf(service_provider, transaction_details, message) ==
    IF service_provider.ok /\ transaction_details.ok /\ message.ok
    THEN Valid([service_provider |-> service_provider.v,
                transaction_details |-> transaction_details.v,
                message |-> message.v])
    ELSE Invalid

\* class ReceiptResponse; ok = FALSE is pydantic's ValidationError
model_validate(d) ==
    IF d.t # "obj" THEN Invalid
    ELSE ReceiptResponseOf(
             validate_ServiceProvider(
                 Field(d.m, "ServiceProvider", "service_provider")),
             validate_TransactionDetails(
                 Field(d.m, "TransactionDetails", "transaction_details")),
             as_opt_str(Field(d.m, "Message", "message")))

\* A variant of the fallback that names no provider: Name=""
FallbackUnnamed ==
    [service_provider |-> [name |-> "", address |-> None, vat_number |-> None],
     transaction_details |-> [items |-> <<>>, currency |-> None,
                              total_amount |-> NoneFlt, vat |-> None],
     message |-> None]

\* ReceiptResponse(ServiceProvider=ServiceProvider(Name="Unknown"),
\*                 TransactionDetails=TransactionDetails())
FallbackRecord ==
    [service_provider |-> [name |-> "Unknown", address |-> None,
                           vat_number |-> None],
     transaction_details |-> [items |-> <<>>, currency |-> None,
                              total_amount |-> NoneFlt, vat |-> None],
     message |-> None]

---------------------------------------------------------------------------
(* json_utils.py: currency normalisation *)

LowerLetters == "abcdefghijklmnopqrstuvwxyz"

UpperLetters == "ABCDEFGHIJKLMNOPQRSTUVWXYZ"

\* str.upper() and str.lower() of one letter, as tables
UpperOf ==
    [c \in {Ch(LowerLetters, i) : i \in 1..26} |->
        Ch(UpperLetters, find(LowerLetters, c, 1))]

LowerOf ==
    [c \in {Ch(UpperLetters, i) : i \in 1..26} |->
        Ch(LowerLetters, find(UpperLetters, c, 1))]

upper_ch(c) == IF c \in DOMAIN UpperOf THEN UpperOf[c] ELSE c

lower_ch(c) == IF c \in DOMAIN LowerOf THEN LowerOf[c] ELSE c

\* str.upper(), str.lower(): letter by letter, the string taken in halves
RECURSIVE upper(_)
upper(s) ==
    IF Len(s) = 0 THEN ""
    ELSE IF Len(s) = 1 THEN upper_ch(s)
    ELSE upper(UpTo(s, Len(s) \div 2)) \o upper(From(s, Len(s) \div 2 + 1))

RECURSIVE lower(_)
lower(s) ==
    IF Len(s) = 0 THEN ""
    ELSE IF Len(s) = 1 THEN lower_ch(s)
    ELSE lower(UpTo(s, Len(s) \div 2)) \o lower(From(s, Len(s) \div 2 + 1))

\* re.fullmatch(r"[A-Z]{3}", s)
IsIsoCode(s) ==
    /\ Len(s) = 3
    /\ \A i \in 1..3 : Ch(s, i) \in DOMAIN LowerOf

\* CURRENCY_ALIASES, in the order of the dict.  The module is written in
\* ASCII: "@" stands for the euro sign and "#" for the pound sign; the other
\* non-ASCII symbols of the table (yen, Kc, zl, lv, rupee, rouble), which are
\* exact-match entries like these two, are left out.
CURRENCY_ALIASES ==
    << <<"@", "EUR">>, <<"#", "GBP">>, <<"$", "USD">>, <<"CHF", "CHF">>,
       <<"kr", "SEK">>, <<"kn", "HRK">>, <<"Ft", "HUF">>, <<"lei", "RON">>,
       <<"R$", "BRL">>,
       <<"euro", "EUR">>, <<"euros", "EUR">>, <<"eur", "EUR">>,
       <<"dollar", "USD">>, <<"dollars", "USD">>, <<"usd", "USD">>,
       <<"pound", "GBP">>, <<"pounds", "GBP">>, <<"gbp", "GBP">>,
       <<"yen", "JPY">>, <<"jpy", "JPY">>,
       <<"franc", "CHF">>, <<"francs", "CHF">>,
       <<"krona", "SEK">>, <<"kronor", "SEK">>, <<"sek", "SEK">>,
       <<"koruna", "CZK">>, <<"czk", "CZK">>,
       <<"zloty", "PLN">>, <<"pln", "PLN">>,
       <<"kuna", "HRK">>, <<"hrk", "HRK">> >>

\* alias.lower() of every entry (line 47)
AliasLower == [i \in 1..Len(CURRENCY_ALIASES) |-> lower(CURRENCY_ALIASES[i][1])]

\* the same lookup on the value as it comes, surrounding whitespace kept
normalise_currency_untrimmed(value) ==
    LET low    == lower(value)
        exact  == {i \in 1..Len(CURRENCY_ALIASES) :
                     CURRENCY_ALIASES[i][1] = value}
        nocase == {i \in 1..Len(CURRENCY_ALIASES) : AliasLower[i] = low}
    IN  IF value = "" THEN value
        ELSE IF IsIsoCode(value) THEN value
        ELSE IF exact # {} THEN CURRENCY_ALIASES[First(exact)][2]
        ELSE IF nocase # {} THEN CURRENCY_ALIASES[First(nocase)][2]
        ELSE UpTo(upper(value), 3)

\* lines 36-49, for a value that is a str
normalise_currency_str(value) ==
    LET stripped == strip(value)
        low      == lower(stripped)
        exact    == {i \in 1..Len(CURRENCY_ALIASES) :
                       CURRENCY_ALIASES[i][1] = stripped}
        nocase   == {i \in 1..Len(CURRENCY_ALIASES) : AliasLower[i] = low}
    IN  IF value = "" THEN value
        ELSE IF IsIsoCode(stripped) THEN stripped
        ELSE IF exact # {} THEN CURRENCY_ALIASES[First(exact)][2]
        ELSE IF nocase # {} THEN CURRENCY_ALIASES[First(nocase)][2]
        ELSE IF stripped # "" THEN UpTo(upper(stripped), 3)
        ELSE value

\* _normalise_currency(value: str | None)
normalise_currency(value) ==
    IF ~value.some THEN value ELSE Some(normalise_currency_str(value.v))

---------------------------------------------------------------------------
(* json_utils.py: amounts *)

\* The amounts of the model that end in 5 thousandths and are no binary
\* fraction: those whose float lies above the decimal value, and below it
\* (IEEE 754 doubles, as float() of the literal gives them).
TiesAbove == {5, 25, 35, 3455, 9275, 9285}

TiesBelow == {15, 45, 1005, 1015, 2675, 3465, 4295}

\* round(x, 2) for x >= 0 in thousandths: to the nearest hundredth of the
\* float's exact value, a true tie (a binary fraction) to the even hundredth
round2_mag(mag, fine) ==
    LET r    == mag % 10
        down == mag - r
        up   == \/ r > 5
                \/ r = 5 /\ (fine \/ mag \in TiesAbove)
                \/ r = 5 /\ ~fine /\ mag \notin TiesBelow /\ (down \div 10) % 2 = 1
    IN  IF up THEN down + 10 ELSE down

\* A variant that cuts the third decimal off instead of rounding
truncate2(f) ==
    Flt(IF f.k >= 0 THEN f.k - (f.k % 10) ELSE -((-f.k) - ((-f.k) % 10)), FALSE)

\* round(x, 2)
round2(f) ==
    Flt(IF f.k >= 0 THEN round2_mag(f.k, f.fine) ELSE -round2_mag(-f.k, f.fine),
        FALSE)

\* lines 57-58
round_prices(items) ==
    [i \in 1..Len(items) |-> [items[i] EXCEPT !.price = round2(@)]]

\* lines 61-62
round_total(total_amount) ==
    IF total_amount.some THEN SomeFlt(round2(total_amount.v)) ELSE total_amount

RECURSIVE SumLines(_, _)
SumLines(items, n) ==
    IF n = 0 THEN 0
    ELSE SumLines(items, n - 1) + items[n].price.k * items[n].quantity

\* line 66, on rounded prices
computed_total(items) == round2(Flt(SumLines(items, Len(items)), FALSE))

\* lines 65-68: whether the mismatch is logged (10 thousandths = 0.01)
total_mismatch(td) ==
    /\ Len(td.items) > 0
    /\ td.total_amount.some
    /\ LET d == computed_total(td.items).k - td.total_amount.v.k
       IN  (IF d >= 0 THEN d ELSE -d) > 10

\* A variant that writes the computed sum over a declared total that
\* differs from it: lines 65-68 correcting instead of logging
validate_amounts_overwrite(r) ==
    LET items == round_prices(r.transaction_details.items)
        total == round_total(r.transaction_details.total_amount)
        td    == [r.transaction_details EXCEPT !.items = items,
                                               !.total_amount = total]
    IN  [r EXCEPT !.transaction_details =
            IF total_mismatch(td)
            THEN [td EXCEPT !.total_amount = SomeFlt(computed_total(items))]
            ELSE td]

\* _validate_amounts: the record it returns
validate_amounts(r) ==
    [r EXCEPT !.transaction_details.items = round_prices(@),
              !.transaction_details.total_amount = round_total(@)]

\* postprocess
postprocess(r) ==
    validate_amounts(
        [r EXCEPT !.transaction_details.currency = normalise_currency(@)])

---------------------------------------------------------------------------
(* parse_json_response as a function of the reply *)

\* How a call ends: with a record, or with an exception leaving it
Returned(r) == [raised |-> FALSE, exc |-> "none", value |-> r]

Raised(e) == [raised |-> TRUE, exc |-> e, value |-> FallbackRecord]

\* The classes of the exceptions the try body raises, each with its bases:
\* ValueError (line 131), json.JSONDecodeError (line 133) and pydantic's
\* ValidationError (line 134)
Bases ==
    [ValueError      |-> {"ValueError", "Exception"},
     JSONDecodeError |-> {"JSONDecodeError", "ValueError", "Exception"},
     ValidationError |-> {"ValidationError", "ValueError", "Exception"}]

\* A variant of the clause that names the decoder's error only
ExceptJSONDecodeError == {"JSONDecodeError"}

\* line 136: except (json.JSONDecodeError, Exception)
ExceptClause == {"JSONDecodeError", "Exception"}

caught(e) == Bases[e] \cap ExceptClause # {}

\* lines 136-144: what the call ends with once the try body raised e
handler(e) == IF caught(e) THEN Returned(FallbackRecord) ELSE Raised(e)

\* lines 134-135 on the validation's result
after_validate(m) ==
    IF m.ok THEN Returned(postprocess(m.v)) ELSE handler("ValidationError")

\* lines 133-135 on the decoder's result
after_loads(d) ==
    IF d.ok THEN after_validate(model_validate(d.v))
    ELSE handler("JSONDecodeError")

\* lines 130-135 on the sanitized text
parse_candidate(js) ==
    IF strip(js) = "" THEN handler("ValueError") ELSE after_loads(json_loads(js))

parse_json_response(s) == parse_candidate(sanitize(s))

---------------------------------------------------------------------------
(* receipt_parser.py: the lines, the provider name and the currency *)

LineBreaks == {"\n", "\r"}

\* the end (exclusive) of the line that starts at i
LineEnd(s, i) ==
    LET at == {j \in i..Len(s) : Ch(s, j) \in LineBreaks}
    IN  IF at = {} THEN Len(s) + 1 ELSE First(at)

\* line 15: [line.strip() for line in raw_text.splitlines() if line.strip()]
RECURSIVE stripped_lines(_, _)
stripped_lines(s, i) ==
    IF i > Len(s) THEN <<>>
    ELSE LET e    == LineEnd(s, i)
             line == strip(SubSeq(s, i, e - 1))
         IN  (IF line # "" THEN <<line>> ELSE <<>>) \o stripped_lines(s, e + 1)

\* line 34
provider_name(ls) == IF Len(ls) > 0 THEN ls[1] ELSE "Unknown"

\* \w over the modelled alphabet
IsWordCh(c) ==
    \/ c \in DOMAIN UpperOf \/ c \in DOMAIN LowerOf \/ c \in Digits \/ c = "_"
    \/ c \in {"&", "="}

\* \b at the gap before position i
BoundaryAt(s, i) ==
    (i > 1 /\ i - 1 <= Len(s) /\ IsWordCh(Ch(s, i - 1)))
        # (i >= 1 /\ i <= Len(s) /\ IsWordCh(Ch(s, i)))

\* re.search(r"\bw\b", s)
search_word(s, w) ==
    \E i \in 1..Len(s) :
        StartsWithAt(s, w, i) /\ BoundaryAt(s, i) /\ BoundaryAt(s, i + Len(w))

\* currency_map, in the order of the dict: the code and the literals of its
\* pattern; "kr" is the one pattern that stands between \b.  In the texts of
\* this module "@" stands for the euro sign, "#" for the pound sign, "^" for
\* the yen sign, "&" for the c with caron and "=" for the l with stroke.
currency_map ==
    << <<"EUR", {"EUR", "@"}>>, <<"USD", {"USD", "$"}>>,
       <<"GBP", {"GBP", "#"}>>, <<"CHF", {"CHF"}>>,
       <<"CAD", {"CAD", "CA$"}>>, <<"CNY", {"CNY", "^", "RMB"}>>,
       <<"SEK", {"SEK"}>>, <<"CZK", {"CZK", "K&"}>>,
       <<"PLN", {"PLN", "z="}>> >>

currency_pattern_found(text, i) ==
    \/ \E lit \in currency_map[i][2] : contains(text, lit)
    \/ currency_map[i][1] = "SEK" /\ search_word(text, "kr")

GermanKeywords ==
    {"mwst", "summe", "gesamt", "brutto", "netto", "rechnung", "steuer",
     "steuernummer", "zahlung"}

FrenchKeywords == {"TVA", "TTC", "Montant", "montant"}

\* where the pattern of entry i first occurs in the text
currency_first_at(text, i) ==
    First({find(text, lit, 1) :
              lit \in {l \in currency_map[i][2] \cup {"kr"} : contains(text, l)}})

\* A variant that returns the currency whose pattern stands first in the text
extract_currency_leftmost(text) ==
    LET hits == {i \in 1..Len(currency_map) : currency_pattern_found(text, i)}
    IN  IF hits # {}
        THEN Some(currency_map[CHOOSE i \in hits :
                      \A k \in hits :
                          currency_first_at(text, i)
                              <= currency_first_at(text, k)][1])
        ELSE IF \E w \in GermanKeywords : search_word(lower(text), w)
             THEN Some("EUR")
        ELSE IF \E w \in FrenchKeywords : search_word(text, w)
             THEN Some("EUR")
        ELSE None

\* _extract_currency
extract_currency(text) ==
    LET hits == {i \in 1..Len(currency_map) : currency_pattern_found(text, i)}
    IN  IF hits # {} THEN Some(currency_map[First(hits)][1])
        ELSE IF \E w \in GermanKeywords : search_word(lower(text), w)
             THEN Some("EUR")
        ELSE IF \E w \in FrenchKeywords : search_word(text, w)
             THEN Some("EUR")
        ELSE None

---------------------------------------------------------------------------
(* The re module, as far as the patterns of receipt_parser.py use it: a    *)
(* pattern is a sequence of nodes, matched with backtracking in the order  *)
(* the standard library tries the alternatives.  The letters outside ASCII *)
(* that three patterns name are left out of this alphabet.                  *)

\* (?:a|b|...) over literal alternatives, in their order; "" makes it optional
Lit(alts) == [t |-> "lit", alts |-> alts]

\* a character class repeated min..max times, as many as possible first
\* unless lazy
Rep(cls, min, max, lazy) ==
    [t |-> "rep", cls |-> cls, min |-> min, max |-> max, lazy |-> lazy]

\* the parentheses of capture group g
Open(g) == [t |-> "open", g |-> g]

Close(g) == [t |-> "close", g |-> g]

Bol == [t |-> "bol"]

Eol == [t |-> "eol"]

\* no upper limit of a repetition
Inf == -1

Star(cls) == Rep(cls, 0, Inf, FALSE)

Plus(cls) == Rep(cls, 1, Inf, FALSE)

Opt(cls) == Rep(cls, 0, 1, FALSE)

One(cls) == Rep(cls, 1, 1, FALSE)

\* whether the one-character string c is in the class written cls
InClass(cls, c) ==
    CASE cls = "."            -> c # "\n"
      [] cls = "\\s"          -> c \in Whitespace
      [] cls = "\\S"          -> c \notin Whitespace
      [] cls = "\\d"          -> c \in Digits
      [] cls = "[.,]"         -> c \in {".", ","}
      [] cls = "[xX]"         -> c \in {"x", "X"}
      [] cls = "[A-Z]"        -> c \in DOMAIN LowerOf
      [] cls = "[A-Za-z]"     -> c \in DOMAIN LowerOf \/ c \in DOMAIN UpperOf
      [] cls = "[:\\s]"       -> c = ":" \/ c \in Whitespace
      [] cls = "[\\s.:]"      -> c \in {".", ":"} \/ c \in Whitespace
      [] cls = "[-.\\s]"      -> c \in {"-", "."} \/ c \in Whitespace
      [] cls = "[\\d\\s./-]"  -> c \in Digits \/ c \in Whitespace
                                   \/ c \in {".", "/", "-"}

\* the same under re.IGNORECASE when ic
InClassFolded(cls, c, ic) ==
    \/ InClass(cls, c)
    \/ ic /\ (InClass(cls, upper_ch(c)) \/ InClass(cls, lower_ch(c)))

min(a, b) == IF a < b THEN a ELSE b

\* the position a run of the class that starts at i cannot pass: the end of
\* s, or max characters on
RunLimit(s, i, max) ==
    IF max = Inf THEN Len(s) + 1 ELSE min(Len(s) + 1, i + max)

\* where the run of characters of the class that starts at i ends: the first
\* position from i on, up to limit, whose character is not in the class
RunEnd(s, cls, ic, i, limit) ==
    CHOOSE j \in i..limit :
        /\ j = limit \/ ~InClassFolded(cls, Ch(s, j), ic)
        /\ \A n \in i..(j - 1) : InClassFolded(cls, Ch(s, n), ic)

\* how many characters from position i on are in the class, at most max
RunLength(s, cls, ic, i, max) == RunEnd(s, cls, ic, i, RunLimit(s, i, max)) - i

NoGroups == << <<0, 0>>, <<0, 0>>, <<0, 0>> >>

NoMatch == [ok |-> FALSE, end |-> 0, caps |-> NoGroups]

\* of the continuations tried, the first one that matched
FirstMatch(tried, lazy) ==
    LET ok == {e \in tried : e.r.ok}
    IN  IF ok = {} THEN NoMatch
        ELSE (CHOOSE e \in ok :
                \A f \in ok : IF lazy THEN e.c <= f.c ELSE e.c >= f.c).r

\* a match of the nodes p[k..] at position i of s; t is s, case-folded when
\* ic; caps are the groups closed so far
RECURSIVE MatchFrom(_, _, _, _, _, _, _)
MatchFrom(p, k, s, t, ic, i, caps) ==
    IF k > Len(p) THEN [ok |-> TRUE, end |-> i, caps |-> caps]
    ELSE CASE p[k].t = "lit" ->
                FirstMatch(
                    {[c |-> a,
                      r |-> IF StartsWithAt(t, p[k].alts[a], i)
                            THEN MatchFrom(p, k + 1, s, t, ic,
                                           i + Len(p[k].alts[a]), caps)
                            ELSE NoMatch] : a \in 1..Len(p[k].alts)},
                    TRUE)
           [] p[k].t = "rep" ->
                FirstMatch(
                    {[c |-> n,
                      r |-> MatchFrom(p, k + 1, s, t, ic, i + n, caps)] :
                        n \in p[k].min..RunLength(s, p[k].cls, ic, i, p[k].max)},
                    p[k].lazy)
           [] p[k].t = "open" ->
                MatchFrom(p, k + 1, s, t, ic, i,
                          [caps EXCEPT ![p[k].g] = <<i, 0>>])
           [] p[k].t = "close" ->
                MatchFrom(p, k + 1, s, t, ic, i,
                          [caps EXCEPT ![p[k].g] = <<caps[p[k].g][1], i>>])
           [] p[k].t = "bol" ->
                IF i = 1 THEN MatchFrom(p, k + 1, s, t, ic, i, caps)
                ELSE NoMatch
           [] p[k].t = "eol" ->
                IF i = Len(s) + 1 \/ (i = Len(s) /\ Ch(s, i) = "\n")
                THEN MatchFrom(p, k + 1, s, t, ic, i, caps)
                ELSE NoMatch

\* the literals of a pattern compiled with re.IGNORECASE
Folded(p) ==
    [k \in 1..Len(p) |->
        IF p[k].t = "lit"
        THEN Lit([a \in 1..Len(p[k].alts) |-> lower(p[k].alts[a])])
        ELSE p[k]]

\* pattern.match(s)
re_match(p, s) == MatchFrom(p, 1, s, s, FALSE, 1, NoGroups)

\* the leftmost match among those found at the start positions
Leftmost(found) ==
    LET ok == {e \in found : e.r.ok}
    IN  IF ok = {} THEN NoMatch
        ELSE (CHOOSE e \in ok : \A f \in ok : e.c <= f.c).r

SearchFolded(p, s, t, ic) ==
    Leftmost({[c |-> i, r |-> MatchFrom(p, 1, s, t, ic, i, NoGroups)] :
                 i \in 1..(Len(s) + 1)})

\* re.search(p, s), and re.search(p, s, re.IGNORECASE)
re_search(p, s) == SearchFolded(p, s, s, FALSE)

re_search_ic(p, s) == SearchFolded(Folded(p), s, lower(s), TRUE)

\* the first of the branches of a pattern b1|b2|... that matches at the
\* leftmost position where any of them matches
FirstBranch(found) ==
    LET ok == {e \in found : e.r.ok}
    IN  IF ok = {} THEN NoMatch
        ELSE (CHOOSE e \in ok :
                \A f \in ok : e.c[1] < f.c[1]
                                \/ (e.c[1] = f.c[1] /\ e.c[2] <= f.c[2])).r

BranchesFolded(ps, s, t, ic) ==
    FirstBranch({[c |-> <<i, b>>,
                  r |-> MatchFrom(IF ic THEN Folded(ps[b]) ELSE ps[b],
                                  1, s, t, ic, i, NoGroups)] :
                    i \in 1..(Len(s) + 1), b \in 1..Len(ps)})

re_search_any_ic(ps, s) == BranchesFolded(ps, s, lower(s), TRUE)

\* match.group(g)
group(s, m, g) == SubSeq(s, m.caps[g][1], m.caps[g][2] - 1)

---------------------------------------------------------------------------
(* receipt_parser.py: the address, the VAT number, the items, the total    *)
(* and the VAT rate                                                          *)

\* line 42: r"\d{4,5}", r"[A-Za-z...]"
postal_code_pattern == <<Rep("\\d", 4, 5, FALSE)>>

letter_pattern == <<One("[A-Za-z]")>>

\* lines 44-48, re.IGNORECASE
street_pattern ==
    <<Lit(<<"str", "street", "road", "avenue", "ave", "blvd", "platz", "weg">>)>>

\* lines 42-48: whether a line goes into the address
is_address_line(line) ==
    \/ re_search(postal_code_pattern, line).ok
         /\ re_search(letter_pattern, line).ok
    \/ re_search_ic(street_pattern, line).ok

\* line 35: lines[:10]
top_lines(lines) == SubSeq(lines, 1, min(10, Len(lines)))

\* lines 39-50: _find_address; the loop is over top_lines[1:]
address_parts(top) == SelectSeq(SubSeq(top, 2, Len(top)), is_address_line)

joined_or_none(parts) == IF Len(parts) > 0 THEN Some(Join(parts, ", ")) ELSE None

find_address(top) == joined_or_none(address_parts(top))

\* lines 54-56: the three patterns of _find_vat_number, re.IGNORECASE; the
\* alternation that opens the first one is written as two branches
vat_code ==
    <<Star("[\\s.:]"), Open(1), Rep("[A-Z]", 0, 2, FALSE), Opt("\\s"),
      One("\\d"), Rep("[\\d\\s./-]", 5, Inf, FALSE), Close(1)>>

vat_number_patterns ==
    << << <<Lit(<<"USt">>), Opt("[-.\\s]"), Lit(<<"Id", "">>), Opt("[-.\\s]"),
            Lit(<<"Nr", "">>)>> \o vat_code,
          <<Lit(<<"VAT", "TVA", "MwSt">>)>> \o vat_code >>,
       << <<Open(1), Lit(<<"DE", "FR", "CH", "AT", "GB", "IT">>), Opt("\\s"),
            Rep("\\d", 9, 12, FALSE), Close(1)>> >>,
       << <<Lit(<<"Tax">>), Star("\\s"), Lit(<<"ID", "No", "Number">>),
            Star("[\\s.:]"), Open(1), Plus("\\S"), Close(1)>> >> >>

\* A variant that takes the pattern whose capture stands first in the text
leftmost_group(text, found) ==
    LET ok == {n \in 1..Len(found) : found[n].ok}
    IN  IF ok = {} THEN None
        ELSE Some(group(text,
                        found[CHOOSE n \in ok :
                                \A k \in ok :
                                    found[n].caps[1][1] <= found[k].caps[1][1]],
                        1))

\* lines 58-62: the first pattern that matches gives the number
first_group(text, found) ==
    LET ok == {n \in 1..Len(found) : found[n].ok}
    IN  IF ok = {} THEN None
        ELSE Some(group(text, found[First(ok)], 1))

\* line 61: .strip()
stripped_group(found) == IF found.some THEN Some(strip(found.v)) ELSE None

\* lines 52-62: _find_vat_number
find_vat_number(text) ==
    stripped_group(
        first_group(text, [n \in 1..Len(vat_number_patterns) |->
                              re_search_any_ic(vat_number_patterns[n], text)]))

\* the keywords of lines 93 and 155
TotalKeywords ==
    <<"total", "summe", "gesamt", "amount", "betrag", "somme", "zu zahlen",
      "bar">>

\* lines 152-159: _is_total_line
is_total_line(name) == re_search_ic(<<Lit(TotalKeywords)>>, name).ok

\* line 149: float(price_str.replace(",", ".")) of digits, a mark, two digits
parse_price(price_str) ==
    Flt(DigitsValue(price_str, 1, Len(price_str) - 2) * 1000
          + DigitsValue(price_str, Len(price_str) - 1, Len(price_str) + 1) * 10,
        FALSE)

\* sys.get_int_max_str_digits() of CPython 3.11: int(str) of more digits
\* raises ValueError
INT_MAX_STR_DIGITS == 4300

\* line 77: int(...) of a run of digits; ok = FALSE is the ValueError
py_int(digits) ==
    IF Len(digits) > INT_MAX_STR_DIGITS THEN [ok |-> FALSE, v |-> 0]
    ELSE [ok |-> TRUE, v |-> DigitsValue(digits, 1, Len(digits) + 1)]

\* lines 66-68
item_pattern ==
    <<Bol, Open(1), Rep(".", 1, Inf, TRUE), Close(1), Plus("\\s"),
      Open(2), Plus("\\d"), Close(2), Star("\\s"), Opt("[xX]"), Plus("\\s"),
      Open(3), Plus("\\d"), One("[.,]"), Rep("\\d", 2, 2, FALSE), Close(3),
      Star("\\s"), Eol>>

\* lines 69-71
price_suffix_pattern ==
    <<Bol, Open(1), Rep(".", 1, Inf, TRUE), Close(1), Plus("\\s"),
      Open(2), Plus("\\d"), One("[.,]"), Rep("\\d", 2, 2, FALSE), Close(2),
      Star("\\s"), Opt("[A-Z]"), Star("\\s"), Eol>>

\* what a line adds to the items: one item, nothing, or the ValueError of
\* line 77
NoItem == [kind |-> "none", v |-> [item |-> "", quantity |-> 0,
                                   price |-> Flt(0, FALSE)]]

RaisesValueError == [kind |-> "raise", v |-> NoItem.v]

OneItem(name, qty, price) ==
    [kind |-> "item", v |-> [item |-> name, quantity |-> qty, price |-> price]]

\* lines 75-80
quantity_item(line, m, qty) ==
    IF ~qty.ok THEN RaisesValueError
    ELSE OneItem(strip(group(line, m, 1)), qty.v,
                 parse_price(group(line, m, 3)))

\* the second pattern without the test of line 86
unfiltered_price_item(line, m) ==
    IF ~m.ok THEN NoItem
    ELSE OneItem(strip(group(line, m, 1)), 1, parse_price(group(line, m, 2)))

\* lines 82-87
price_suffix_item(line, m) ==
    IF ~m.ok THEN NoItem
    ELSE IF is_total_line(strip(group(line, m, 1))) THEN NoItem
    ELSE OneItem(strip(group(line, m, 1)), 1, parse_price(group(line, m, 2)))

first_pattern_item(line, m) ==
    IF m.ok THEN quantity_item(line, m, py_int(group(line, m, 2)))
    ELSE price_suffix_item(line, re_match(price_suffix_pattern, line))

\* lines 74-87: one turn of the loop
line_item(line) == first_pattern_item(line, re_match(item_pattern, line))

\* lines 64-89: _extract_items from line n on, items being the list so far
RECURSIVE extract_items(_, _, _)
items_after(lines, n, items, found) ==
    IF found.kind = "raise" THEN [raised |-> TRUE, items |-> items]
    ELSE extract_items(lines, n + 1,
                       IF found.kind = "item" THEN Append(items, found.v)
                       ELSE items)

extract_items(lines, n, items) ==
    IF n > Len(lines) THEN [raised |-> FALSE, items |-> items]
    ELSE items_after(lines, n, items, line_item(lines[n]))

\* lines 92-95, re.IGNORECASE
total_pattern ==
    <<Lit(TotalKeywords), Star("\\s"), Star("[:\\s]"), Open(1), Plus("\\d"),
      One("[.,]"), Rep("\\d", 2, 2, FALSE), Close(1)>>

\* the topmost of the matching lines
forward_first(matching) == First(matching)

\* line 96: the line that  for line in reversed(lines)  meets first
reversed_first(matching) == Last(matching)

total_of_line(line) ==
    parse_price(group(line, re_search_ic(total_pattern, line), 1))

total_in(lines, matching) ==
    IF matching = {} THEN NoneFlt
    ELSE SomeFlt(total_of_line(lines[reversed_first(matching)]))

\* lines 91-100: _extract_total
extract_total(lines) ==
    total_in(lines, {n \in 1..Len(lines) :
                        re_search_ic(total_pattern, lines[n]).ok})

\* lines 138-139, re.IGNORECASE
vat_patterns ==
    << <<Lit(<<"MwSt", "VAT", "TVA", "USt">>), Star("\\s"), Star("[:\\s]"),
         Open(1), Plus("\\d"), Opt("[.,]"), Star("\\d"), Close(1),
         Star("\\s"), Lit(<<"%">>)>>,
       <<Open(1), Plus("\\d"), Opt("[.,]"), Star("\\d"), Close(1),
         Star("\\s"), Lit(<<"%">>), Star("\\s"),
         Lit(<<"MwSt", "VAT", "TVA", "USt">>)>> >>

\* str.replace(",", ".") of a string with at most one comma
replace_comma(s) ==
    IF find(s, ",", 1) = 0 THEN s
    ELSE SubSeq(s, 1, find(s, ",", 1) - 1) \o "." \o From(s, find(s, ",", 1) + 1)

\* line 144
rate_text(found) ==
    IF ~found.some THEN None ELSE Some(replace_comma(found.v) \o "%")

\* lines 136-145: _extract_vat
extract_vat(text) ==
    rate_text(first_group(text, [n \in 1..Len(vat_patterns) |->
                                    re_search_ic(vat_patterns[n], text)]))

---------------------------------------------------------------------------
(* The inputs: LLM replies and raw texts *)

MaxItems == 1

MaxFrags == 2

MaxLines == 2

\* all sequences over S of length at most n
RECURSIVE SeqsUpTo(_, _)
SeqsUpTo(S, n) ==
    IF n = 0 THEN {<<>>}
    ELSE LET shorter == SeqsUpTo(S, n - 1)
         IN  shorter \cup {Append(q, x) : q \in shorter, x \in S}

\* JSON text: a string, an object of members, an array
Quote(str) == "\"" \o str \o "\""

Object(members) == "{" \o Join(members, ",") \o "}"

Array(elements) == "[" \o Join(elements, ", ") \o "]"

Member(key, text) == <<Quote(key) \o ": " \o text>>

ItemText(item, quantity, price) ==
    Object(Member("Item", Quote(item)) \o Member("Quantity", quantity)
           \o Member("Price", price))

ItemTexts ==
    { ItemText("Latte", "2", "3.456"),
      ItemText("Tea", "1", "2.675"),
      ItemText("Bag", "0", "-0.5"),
      Object(Member("Item", Quote("Gum")) \o Member("Quantity", "1")) }

\* the members an optional key can contribute: none when the key is absent
NoMember == <<>>

ItemsMembers ==
    {NoMember} \cup
    {Member("Items", Array(l)) : l \in SeqsUpTo(ItemTexts, MaxItems)}

CurrencyMembers ==
    {NoMember} \cup
    {Member("Currency", t) :
        t \in {"null", Quote("EUR"), Quote("eur"), Quote("@"), Quote(""),
               Quote(" "), Quote("ab"), Quote("US Dollar"), Quote("KR"),
               Quote("XYZ"), Quote(" abcd"), Quote("Dollar"), Quote("kr"),
               Quote("Kr"), Quote("ft"), Quote("r$"), Quote("$"),
               Quote("kr 5")}}

TotalMembers ==
    {NoMember} \cup
    {Member("TotalAmount", t) : t \in {"null", "9.275", "6.91", "7", "2.6751"}}

ProviderTexts ==
    {Object(Member("Name", t)) :
        t \in {Quote("Shop"), Quote(""), Quote("Unknown"), Quote("A<think>B"),
               Quote("A<think>x</think>B"), Quote("A~~~B"), "7", "null"}}
    \cup {Object(Member("Name", Quote("Test Store"))
                 \o Member("Address", Quote("123 Main St"))
                 \o Member("VATNumber", "null")),
          Object(Member("Address", Quote("123 Main St")))}

Doc(provider, details) ==
    Object(Member("ServiceProvider", provider)
           \o Member("TransactionDetails", Object(details)))

ShopText == Object(Member("Name", Quote("Shop")))

LatteMember == Member("Items", Array(<<ItemText("Latte", "2", "3.456")>>))

\* documents that depart from the wire schema in the kind of a value or in
\* the name of a key
LooseDocs ==
    {Doc(ShopText, Member("Items", Array(<<ItemText("Latte", q, p)>>))) :
        q \in {"2", Quote("2"), "true"}, p \in {"3.5", Quote("3.50")}}
    \cup {Doc(Object(Member("Name", Quote("Shop"))
                     \o Member("Adress", Quote("1 Main St"))), LatteMember),
          Doc(ShopText, LatteMember \o Member("total_amount", "9.28")),
          Doc(ShopText, LatteMember \o Member("Currency", "7")),
          Object(Member("service_provider", Object(Member("name", Quote("Shop"))))
                 \o Member("transaction_details", "{}"))}

\* receipt documents, well-formed JSON all of them
Docs ==
    {Doc(ShopText, i \o Member("Currency", Quote("EUR")) \o t
                     \o Member("VAT", Quote("19%"))) :
        i \in ItemsMembers, t \in TotalMembers}
    \cup {Doc(ShopText, LatteMember \o c \o Member("TotalAmount", "9.275")) :
            c \in CurrencyMembers}
    \cup {Doc(p, LatteMember) : p \in ProviderTexts}
    \cup {Object(Member("ServiceProvider", ShopText)), "[]", "7"}
    \cup LooseDocs

\* what a model puts around, or cuts from, a document
Decorated(doc) ==
    { doc,
      " " \o doc \o "\n",
      "~~~json\n" \o doc \o "\n~~~",
      "~~~\n" \o doc \o "\n~~~",
      "<think>plan {x} ~~~</think>" \o doc,
      "<think>{</think>\n~~~json\n" \o doc \o "\n~~~",
      "<think>no end " \o doc,
      "Here it is: " \o doc \o " Done.",
      "} so: " \o doc \o " {end",
      UpTo(doc, Len(doc) - 1) }

\* short replies over the markers of the sanitizer
Fragments ==
    {ThinkOpen, ThinkClose, Fence, "json", "{", "}", " ", "x", "\n",
     Object(Member("ServiceProvider", ShopText)
            \o Member("TransactionDetails", "{}"))}

Replies ==
    UNION {Decorated(doc) : doc \in Docs}
    \cup {Join(f, "") : f \in SeqsUpTo(Fragments, MaxFrags)}

TextLines ==
    {"Shop", "Unknown", "  ", "5 kr", "EUR 3,00", " Summe 9.28", "TVA 20%", "$1",
     "Latte 2 x 4.29", "Total 9.28", "Bag 0 1.00", "Tea 1,50 A", "TOTAL: 12,50"}

\* str * n, by doubling
RECURSIVE Repeat(_, _)
Doubled(half, odd, str) == half \o half \o (IF odd THEN str ELSE "")

Repeat(str, n) ==
    IF n = 0 THEN "" ELSE Doubled(Repeat(str, n \div 2), n % 2 = 1, str)

\* a line whose quantity has one digit more than int() converts
LongQuantityLine == "x " \o Repeat("1", INT_MAX_STR_DIGITS + 1) \o " 1.00"

\* twelve lines, the n-th of them a postal code and a town
AddressAt(n) ==
    Join([i \in 1..12 |-> IF i = n THEN "04109 Leipzig" ELSE "x"], "\n")

AddressTexts ==
    {AddressAt(n) : n \in 1..12}
    \cup {"Shop\nMain Street 5\n04109 Leipzig", "Shop\n\nx\nAm Weg 3\n1234"}

\* texts with tax numbers, some matched by several of the patterns
VatNumberTexts ==
    {"VAT: 795871659", "USt-IdNr: DE123456789", "no vat number",
     "Tax ID: X99\nVAT: 795871659", "DE123456789\nTax No. 55",
     "Tax Number 7\nGB 123456789", "Tax ID: AB-1",
     "GB 123456789\nMwSt. 12/345/6789 \nBar"}

\* texts that name currencies: every literal of currency_map after an
\* amount, and texts with two currencies, with keywords, with neither
CurrencyTexts ==
    UNION {{"9.28 " \o lit : lit \in currency_map[i][2]} :
              i \in 1..Len(currency_map)}
    \cup {"PLN 5 CHF", "z= 3 K& 2", "RMB then GBP", "SEK\nCZK", "5kr",
          "Kr 5", "9 kr.", "eur 5", "Montant 5", "TTC", "tva 20", "ttc",
          "Netto 4.01", "NETTO", "Steuernummer 2/1849", "Nettopreis",
          "no currency here", "5 kr Summe", "Summe\nPLN"}

\* total lines that also read as name, quantity, price
TotalQuantityTexts == {"Shop\nTotal 2 9.28", "Shop\nSumme 1 x 12,50\nBar 50.00"}

Texts ==
    {Join(l, "\n") : l \in SeqsUpTo(TextLines, MaxLines)}
    \cup {LongQuantityLine}
    \cup AddressTexts
    \cup VatNumberTexts
    \cup CurrencyTexts
    \cup TotalQuantityTexts

---------------------------------------------------------------------------
(* The calls, step by step *)

NoValue == [none |-> TRUE]

\* os.environ without the key OCR_BACKEND
Unset == "unset"

Init ==
    /\ entry \in {"llm", "regex"}
    /\ response \in (IF entry = "llm" THEN Replies ELSE Texts)
    /\ pc = "start"
    /\ json_str = ""
    /\ data = JNull
    /\ result = NoValue
    /\ exc = "none"
    /\ outcome = "running"
    /\ rx_lines = <<>>
    /\ rx_name = ""
    /\ rx_currency = None
    /\ rx_address = None
    /\ rx_vat_number = None
    /\ rx_items = <<>>
    /\ rx_total = NoneFlt
    /\ rx_vat = None
    /\ requests = <<>>
    /\ environ = Unset
    /\ backend = Unset
    /\ hy = NoValue

RegexLocals ==
    <<rx_lines, rx_name, rx_currency, rx_address, rx_vat_number, rx_items,
      rx_total, rx_vat>>

\* a step of parse_json_response that only rewrites json_str
Rewrite(from, to, text) ==
    /\ entry = "llm"
    /\ pc = from
    /\ json_str' = text
    /\ pc' = to
    /\ UNCHANGED <<RouterVars, hy, entry, response, data, result, exc, outcome, RegexLocals>>

\* line 94
Strip == Rewrite("start", "closed_think", strip(response))

\* lines 97-99
StripClosedThink ==
    Rewrite("closed_think", "unclosed_think", strip_closed_think(json_str))

\* lines 102-108
HandleUnclosedThink ==
    Rewrite("unclosed_think", "fences", handle_unclosed_think(json_str))

\* lines 111-114
StripFences == Rewrite("fences", "locate", strip_fences(json_str))

\* lines 117-122
LocateObject == Rewrite("locate", "trailing", locate_object(json_str))

\* lines 125-128
StripTrailing == Rewrite("trailing", "check_empty", strip_trailing(json_str))

\* lines 130-131
CheckEmpty ==
    /\ entry = "llm"
    /\ pc = "check_empty"
    /\ IF strip(json_str) = ""
       THEN exc' = "ValueError" /\ pc' = "except"
       ELSE exc' = exc /\ pc' = "loads"
    /\ UNCHANGED <<RouterVars, hy, entry, response, json_str, data, result, outcome, RegexLocals>>

\* line 133
JsonLoads ==
    /\ entry = "llm"
    /\ pc = "loads"
    /\ LET d == json_loads(json_str)
       IN  IF d.ok
           THEN data' = d.v /\ exc' = exc /\ pc' = "validate"
           ELSE data' = data /\ exc' = "JSONDecodeError" /\ pc' = "except"
    /\ UNCHANGED <<RouterVars, hy, entry, response, json_str, result, outcome, RegexLocals>>

\* line 134
ModelValidate ==
    /\ entry = "llm"
    /\ pc = "validate"
    /\ LET m == model_validate(data)
       IN  IF m.ok
           THEN result' = m.v /\ exc' = exc /\ pc' = "postprocess"
           ELSE result' = result /\ exc' = "ValidationError" /\ pc' = "except"
    /\ UNCHANGED <<RouterVars, hy, entry, response, json_str, data, outcome, RegexLocals>>

\* line 135
Postprocess ==
    /\ entry = "llm"
    /\ pc = "postprocess"
    /\ result' = postprocess(result)
    /\ outcome' = "returned"
    /\ pc' = "done"
    /\ UNCHANGED <<RouterVars, hy, entry, response, json_str, data, exc, RegexLocals>>

\* lines 136-144
Except ==
    /\ entry = "llm"
    /\ pc = "except"
    /\ result' = handler(exc).value
    /\ outcome' = IF handler(exc).raised THEN "raised" ELSE "returned"
    /\ pc' = "done"
    /\ UNCHANGED <<RouterVars, hy, entry, response, json_str, data, exc, RegexLocals>>

LlmLocals == <<json_str, data, result, exc>>

\* a statement of RegexReceiptParser.parse that leaves the call running
RegexStep(from, to) ==
    /\ entry = "regex"
    /\ pc = from
    /\ pc' = to
    /\ UNCHANGED <<RouterVars, hy, entry, response, LlmLocals, outcome>>

\* receipt_parser.py line 15
SplitLines ==
    /\ RegexStep("start", "provider")
    /\ rx_lines' = stripped_lines(response, 1)
    /\ UNCHANGED <<rx_name, rx_currency, rx_address, rx_vat_number, rx_items,
                   rx_total, rx_vat>>

\* receipt_parser.py line 34
ExtractProviderName ==
    /\ RegexStep("provider", "address")
    /\ rx_name' = provider_name(rx_lines)
    /\ UNCHANGED <<rx_lines, rx_currency, rx_address, rx_vat_number, rx_items,
                   rx_total, rx_vat>>

\* receipt_parser.py line 35
FindAddress ==
    /\ RegexStep("address", "vat_number")
    /\ rx_address' = find_address(top_lines(rx_lines))
    /\ UNCHANGED <<rx_lines, rx_name, rx_currency, rx_vat_number, rx_items,
                   rx_total, rx_vat>>

\* receipt_parser.py lines 36-37
FindVatNumber ==
    /\ RegexStep("vat_number", "items")
    /\ rx_vat_number' = find_vat_number(response)
    /\ UNCHANGED <<rx_lines, rx_name, rx_currency, rx_address, rx_items,
                   rx_total, rx_vat>>

\* receipt_parser.py line 18; the ValueError of line 77 leaves parse
ExtractItems ==
    /\ entry = "regex"
    /\ pc = "items"
    /\ LET found == extract_items(rx_lines, 1, <<>>)
       IN  IF found.raised
           THEN /\ rx_items' = rx_items
                /\ outcome' = "raised"
                /\ pc' = "done"
           ELSE /\ rx_items' = found.items
                /\ outcome' = outcome
                /\ pc' = "total"
    /\ UNCHANGED <<RouterVars, hy, entry, response, LlmLocals, rx_lines, rx_name, rx_currency,
                   rx_address, rx_vat_number, rx_total, rx_vat>>

\* receipt_parser.py line 19
ExtractTotal ==
    /\ RegexStep("total", "currency")
    /\ rx_total' = extract_total(rx_lines)
    /\ UNCHANGED <<rx_lines, rx_name, rx_currency, rx_address, rx_vat_number,
                   rx_items, rx_vat>>

\* receipt_parser.py line 20
ExtractCurrency ==
    /\ RegexStep("currency", "vat")
    /\ rx_currency' = extract_currency(response)
    /\ UNCHANGED <<rx_lines, rx_name, rx_address, rx_vat_number, rx_items,
                   rx_total, rx_vat>>

\* receipt_parser.py line 21
ExtractVat ==
    /\ RegexStep("vat", "return")
    /\ rx_vat' = extract_vat(response)
    /\ UNCHANGED <<rx_lines, rx_name, rx_currency, rx_address, rx_vat_number,
                   rx_items, rx_total>>

\* receipt_parser.py lines 23-31
ReturnRecord ==
    /\ entry = "regex"
    /\ pc = "return"
    /\ result' = [service_provider |->
                     [name |-> rx_name, address |-> rx_address,
                      vat_number |-> rx_vat_number],
                  transaction_details |->
                     [items |-> rx_items, currency |-> rx_currency,
                      total_amount |-> rx_total, vat |-> rx_vat],
                  message |-> None]
    /\ outcome' = "returned"
    /\ pc' = "done"
    /\ UNCHANGED <<RouterVars, hy, entry, response, json_str, data, exc, RegexLocals>>

Next ==
    \/ Strip
    \/ StripClosedThink
    \/ HandleUnclosedThink
    \/ StripFences
    \/ LocateObject
    \/ StripTrailing
    \/ CheckEmpty
    \/ JsonLoads
    \/ ModelValidate
    \/ Postprocess
    \/ Except
    \/ SplitLines
    \/ ExtractProviderName
    \/ FindAddress
    \/ FindVatNumber
    \/ ExtractItems
    \/ ExtractTotal
    \/ ExtractCurrency
    \/ ExtractVat
    \/ ReturnRecord

Spec == Init /\ [][Next]_vars

\* The statements a call at pc has still to run, at most
StepsLeft(at) ==
    CASE at = "start"          -> 11
      [] at = "closed_think"   -> 10
      [] at = "unclosed_think" -> 9
      [] at = "fences"         -> 8
      [] at = "locate"         -> 7
      [] at = "trailing"       -> 6
      [] at = "check_empty"    -> 5
      [] at = "loads"          -> 4
      [] at = "validate"       -> 3
      [] at = "postprocess"    -> 2
      [] at = "provider"       -> 8
      [] at = "address"        -> 7
      [] at = "vat_number"     -> 6
      [] at = "items"          -> 5
      [] at = "total"          -> 4
      [] at = "currency"       -> 3
      [] at = "vat"            -> 2
      [] at = "return"         -> 1
      [] at = "except"         -> 1
      [] at = "done"           -> 0

---------------------------------------------------------------------------
(* Properties of the returned record *)

LlmDone == entry = "llm" /\ pc = "done"

\* the reply went through json.loads and model_validate
Validated == model_validate(data).ok

\* the record model_validate built, before postprocess
ValidatedRecord == model_validate(data).v

IsOptStr(o) == o.some \in BOOLEAN /\ o.v \in STRING

IsFlt(f) == f.k \in Int /\ f.fine \in BOOLEAN

IsItem(it) == it.item \in STRING /\ it.quantity \in Int /\ IsFlt(it.price)

IsReceiptResponse(r) ==
    /\ DOMAIN r = {"service_provider", "transaction_details", "message"}
    /\ r.service_provider.name \in STRING
    /\ IsOptStr(r.service_provider.address)
    /\ IsOptStr(r.service_provider.vat_number)
    /\ \A i \in 1..Len(r.transaction_details.items) :
           IsItem(r.transaction_details.items[i])
    /\ IsOptStr(r.transaction_details.currency)
    /\ r.transaction_details.total_amount.some \in BOOLEAN
    /\ IsFlt(r.transaction_details.total_amount.v)
    /\ IsOptStr(r.transaction_details.vat)
    /\ IsOptStr(r.message)

\* the statements of parse_json_response: at each of them a step is enabled
LlmStatements ==
    {"start", "closed_think", "unclosed_think", "fences", "locate", "trailing",
     "check_empty", "loads", "validate", "postprocess", "except"}

\* C1: every call of parse_json_response ends, and it ends by returning a
\* ReceiptResponse: no exception raised while sanitizing, decoding,
\* validating or post-processing leaves the call.  (Until it is done the
\* call stands at a statement, and every step leaves fewer steps to run.)
C1_NeverRaises ==
    /\ [](entry = "llm" =>
            /\ outcome # "raised"
            /\ pc = "done" => outcome = "returned" /\ IsReceiptResponse(result)
            /\ pc # "done" => pc \in LlmStatements)
    /\ [][StepsLeft(pc') < StepsLeft(pc)]_vars

\* a call whose try body raised pydantic's ValidationError, and that returned
C1_ValidationErrorCaught ==
    LlmDone /\ exc = "ValidationError" /\ outcome = "returned"

\* the reply cannot be processed: nothing is left of it, or what is left is
\* no JSON, or the JSON does not fit the schema
CannotBeProcessed ==
    LET js == sanitize(response)
    IN  \/ strip(js) = ""
        \/ ~json_loads(js).ok
        \/ ~model_validate(json_loads(js).v).ok

\* C2: when the reply cannot be processed, the call returns the fixed
\* fallback record: the name "Unknown", no address, no VAT number, no items,
\* no currency, no total, no VAT and no message.
C2_FallbackOnFailure ==
    LlmDone /\ CannotBeProcessed =>
        /\ outcome = "returned"
        /\ result.service_provider.name = "Unknown"
        /\ ~result.service_provider.address.some
        /\ ~result.service_provider.vat_number.some
        /\ result.transaction_details.items = <<>>
        /\ ~result.transaction_details.currency.some
        /\ ~result.transaction_details.total_amount.some
        /\ ~result.transaction_details.vat.some
        /\ ~result.message.some

\* a receipt whose closing brace was cut off: the decoder fails on it
C2_TruncatedObject ==
    /\ LlmDone
    /\ response = UpTo(Doc(ShopText, LatteMember),
                       Len(Doc(ShopText, LatteMember)) - 1)
    /\ exc = "JSONDecodeError"
    /\ CannotBeProcessed

\* the reply is, as it stands, a JSON object that fits the schema
ConformingObject(s) ==
    /\ strip(s) = s
    /\ json_loads(s).ok
    /\ model_validate(json_loads(s).v).ok

\* the record the JSON text s states
Stated(s) == model_validate(json_loads(s).v).v

SameItemLines(a, b) ==
    /\ Len(a) = Len(b)
    /\ \A i \in 1..Len(a) :
           a[i].item = b[i].item /\ a[i].quantity = b[i].quantity

\* C3: for an undecorated reply that is a JSON object fitting the schema,
\* the call returns a record that is not the fallback and whose provider
\* (name, address, VAT number), item lines (count, order, names, quantities)
\* and VAT string are those of the JSON.
C3_ConformingReplyKept ==
    LlmDone /\ ConformingObject(response) =>
        /\ outcome = "returned"
        /\ exc = "none"
        /\ result.service_provider = Stated(response).service_provider
        /\ SameItemLines(result.transaction_details.items,
                         Stated(response).transaction_details.items)
        /\ result.transaction_details.vat
              = Stated(response).transaction_details.vat

\* what the sanitizer is taken to give: the empty string when nothing but
\* whitespace is left (lines 130-131 reject it)
Clean(js) == IF strip(js) = "" THEN "" ELSE js

\* C4: the sanitizer (lines 94-128) is idempotent: sanitizing the sanitized
\* text gives the sanitized text.
C4_SanitizeIdempotent ==
    entry = "llm" /\ pc = "check_empty" =>
        Clean(sanitize(Clean(json_str))) = Clean(json_str)

\* J in a markdown fence, with the tag "json" or without it
Fenced(tag, J) == Fence \o tag \o "\n" \o J \o "\n" \o Fence

\* C5: a schema-valid JSON text in a markdown fence gives the record the
\* bare text gives.
C5_FenceTransparent ==
    \A J \in Docs : \A tag \in {"json", ""} :
        LlmDone /\ response = Fenced(tag, J) /\ ConformingObject(J) =>
            /\ outcome = "returned"
            /\ ~parse_json_response(J).raised
            /\ result = parse_json_response(J).value

\* the reply starts with a closed reasoning block
StartsWithClosedBlock(s) ==
    startswith(s, ThinkOpen) /\ find(s, ThinkClose, Len(ThinkOpen) + 1) # 0

\* what follows that block
AfterClosedBlock(s) ==
    From(s, find(s, ThinkClose, Len(ThinkOpen) + 1) + Len(ThinkClose))

\* C6: a closed reasoning block at the head of the reply, whatever braces or
\* fences it holds, is removed before the fences and braces are looked for:
\* the call returns what it returns for the rest of the reply alone.
C6_ClosedBlockRemoved ==
    LlmDone /\ StartsWithClosedBlock(response) =>
        /\ outcome = "returned"
        /\ ~parse_json_response(AfterClosedBlock(response)).raised
        /\ result = parse_json_response(AfterClosedBlock(response)).value

\* a block that holds braces and a fence, before a receipt that is returned
C6_BlockWithBracesAndFence ==
    /\ LlmDone
    /\ response = "<think>plan {x} ~~~</think>" \o Doc(ShopText, LatteMember)
    /\ exc = "none"
    /\ result.service_provider.name = "Shop"

ReturnedName == IF entry = "llm" THEN result.service_provider.name ELSE rx_name

\* parsing failed: the fallback was taken, or the text had no line at all
ParsingFailed == IF entry = "llm" THEN exc # "none" ELSE rx_lines = <<>>

\* C7: in every record returned by either entry point the provider name is
\* a non-empty string, and it is "Unknown" only when parsing failed.
C7_NameNeverEmpty ==
    pc = "done" /\ outcome = "returned" =>
        /\ ReturnedName # ""
        /\ ReturnedName = "Unknown" => ParsingFailed

ReturnedCurrency ==
    IF entry = "llm" THEN result.transaction_details.currency ELSE rx_currency

ThreeUpperLetters(s) ==
    Len(s) = 3 /\ \A i \in 1..3 : Ch(s, i) \in {Ch(UpperLetters, j) : j \in 1..26}

\* C8: in every record returned by either entry point the currency is
\* absent or a string of exactly three uppercase letters.
C8_CurrencyIsCode ==
    pc = "done" /\ outcome = "returned" =>
        ~ReturnedCurrency.some \/ ThreeUpperLetters(ReturnedCurrency.v)

NearestMag(k, fine, r) ==
    r % 10 = 0 /\ r - 5 <= k /\ k <= (IF fine THEN r + 4 ELSE r + 5)

\* r has at most 2 decimals and no hundredth is nearer to f
NearestHundredth(f, r) ==
    /\ ~r.fine
    /\ IF f.k >= 0 THEN NearestMag(f.k, f.fine, r.k)
       ELSE NearestMag(-f.k, f.fine, -r.k)

\* C10: in the record returned the total, when present, and every item
\* price have at most 2 decimals and are the parsed value rounded to the
\* nearest hundredth; 3.456 becomes 3.46.
C10_RoundedToHundredths ==
    LlmDone /\ Validated =>
        LET before == ValidatedRecord.transaction_details
            after  == result.transaction_details
        IN  /\ after.total_amount.some = before.total_amount.some
            /\ before.total_amount.some =>
                   NearestHundredth(before.total_amount.v, after.total_amount.v)
            /\ Len(after.items) = Len(before.items)
            /\ \A i \in 1..Len(before.items) :
                   /\ NearestHundredth(before.items[i].price, after.items[i].price)
                   /\ before.items[i].price = Flt(3456, FALSE) =>
                          after.items[i].price = Flt(3460, FALSE)

\* the price 3.456 came back as 3.46, and the total 2.6751 as 2.68
C10_PriceRoundedUp ==
    /\ LlmDone
    /\ Validated
    /\ Len(result.transaction_details.items) > 0
    /\ ValidatedRecord.transaction_details.items[1].price = Flt(3456, FALSE)
    /\ result.transaction_details.items[1].price = Flt(3460, FALSE)
    /\ ValidatedRecord.transaction_details.total_amount = SomeFlt(Flt(2675, TRUE))
    /\ result.transaction_details.total_amount = SomeFlt(Flt(2680, FALSE))

---------------------------------------------------------------------------
(* Properties of the items, of the schema and of the heuristic parser *)

ReturnedItems == result.transaction_details.items

ReturnedTotal == result.transaction_details.total_amount

\* C11: every line item of a record returned by either entry point has a
\* non-empty name, a quantity of at least 1 and a price of at least 0, and
\* the total, when present, is at least 0.
C11_LineItemsWellFormed ==
    pc = "done" /\ outcome = "returned" =>
        /\ \A i \in 1..Len(ReturnedItems) :
               /\ ReturnedItems[i].item # ""
               /\ ReturnedItems[i].quantity >= 1
               /\ ReturnedItems[i].price.k >= 0
        /\ ReturnedTotal.some => ReturnedTotal.v.k >= 0

\* the member of an object under a wire name of the schema
Wire(m, alias) ==
    IF HasKey(m, alias) THEN [present |-> TRUE, v |-> Get(m, alias)] ELSE Absent

\* a required field that holds a value of the kind the schema names
HoldsKind(f, kind) == f.present /\ f.v.t = kind

\* an optional field: absent, null, or of the kind
MayHoldKind(f, kind) == ~f.present \/ f.v.t = "null" \/ f.v.t = kind

ItemKinds(v) ==
    /\ v.t = "obj"
    /\ HoldsKind(Wire(v.m, "Item"), "str")
    /\ HoldsKind(Wire(v.m, "Quantity"), "num")
    /\ HoldsKind(Wire(v.m, "Price"), "num")

ItemsKinds(f) ==
    ~f.present \/ (f.v.t = "arr" /\ \A i \in 1..Len(f.v.a) : ItemKinds(f.v.a[i]))

ProviderKinds(f) ==
    /\ HoldsKind(f, "obj")
    /\ HoldsKind(Wire(f.v.m, "Name"), "str")
    /\ MayHoldKind(Wire(f.v.m, "Address"), "str")
    /\ MayHoldKind(Wire(f.v.m, "VATNumber"), "str")

DetailsKinds(f) ==
    /\ HoldsKind(f, "obj")
    /\ ItemsKinds(Wire(f.v.m, "Items"))
    /\ MayHoldKind(Wire(f.v.m, "Currency"), "str")
    /\ MayHoldKind(Wire(f.v.m, "TotalAmount"), "num")
    /\ MayHoldKind(Wire(f.v.m, "VAT"), "str")

\* every required field of the wire schema is there and every field that is
\* there holds a value of its kind
KindsConform(d) ==
    /\ d.t = "obj"
    /\ ProviderKinds(Wire(d.m, "ServiceProvider"))
    /\ DetailsKinds(Wire(d.m, "TransactionDetails"))
    /\ MayHoldKind(Wire(d.m, "Message"), "str")

\* json.loads returned: data is the parsed document
Parsed == LlmDone /\ exc \in {"none", "ValidationError"}

\* C12: a parsed document in which a required field is absent or a field
\* holds a value of the wrong kind is a validation failure: the call returns
\* the fallback record.
C12_WrongKindIsFailure ==
    Parsed /\ ~KindsConform(data) =>
        exc = "ValidationError" /\ result = FallbackRecord

\* the wire names of the schema, class by class
ItemWireNames == {"Item", "Quantity", "Price"}

ProviderWireNames == {"Name", "Address", "VATNumber"}

DetailsWireNames == {"Items", "Currency", "TotalAmount", "VAT"}

ResponseWireNames == {"ServiceProvider", "TransactionDetails", "Message"}

\* an object that has a key outside the names given
ForeignKey(v, names) ==
    v.t = "obj" /\ \E i \in 1..Len(v.m) : v.m[i][1] \notin names

ForeignKeyAt(f, names) == f.present /\ ForeignKey(f.v, names)

ForeignItemKey(f) ==
    /\ f.present
    /\ f.v.t = "arr"
    /\ \E i \in 1..Len(f.v.a) : ForeignKey(f.v.a[i], ItemWireNames)

\* a document with a key, at some level of the schema, that is not a wire
\* name of that level
KeyMismatch(d) ==
    \/ ForeignKey(d, ResponseWireNames)
    \/ d.t = "obj" /\
         \/ ForeignKeyAt(Wire(d.m, "ServiceProvider"), ProviderWireNames)
         \/ ForeignKeyAt(Wire(d.m, "TransactionDetails"), DetailsWireNames)
         \/ /\ HoldsKind(Wire(d.m, "TransactionDetails"), "obj")
            /\ ForeignItemKey(Wire(Wire(d.m, "TransactionDetails").v.m, "Items"))

\* C13: a parsed document with a key that is not a wire name of the schema
\* is a validation failure and the call returns the fallback record; the
\* key is never dropped and never read as the field of that internal name.
C13_KeyMismatchIsFailure ==
    Parsed /\ KeyMismatch(data) =>
        exc = "ValidationError" /\ result = FallbackRecord

\* the text has no line with anything but whitespace on it
Blank(text) == strip(text) = ""

\* C14: RegexReceiptParser.parse never fails: whatever the text, the call
\* returns a record, and for an empty or all-blank text the record has the
\* name "Unknown", no items, and no total, currency, VAT, address or VAT
\* number.
C14_ParseNeverFails ==
    entry = "regex" =>
        /\ outcome # "raised"
        /\ pc = "done" => outcome = "returned" /\ IsReceiptResponse(result)
        /\ pc = "done" /\ Blank(response) => result = FallbackRecord

\* RegexReceiptParser.parse has run _extract_total
TotalExtracted ==
    /\ entry = "regex"
    /\ outcome # "raised"
    /\ pc \in {"currency", "vat", "return", "done"}

\* the first position from j on that holds neither whitespace nor a colon
AfterSeparators(line, j) ==
    LET at == {n \in j..Len(line) : Ch(line, n) \notin Whitespace \cup {":"}}
    IN  IF at = {} THEN Len(line) + 1 ELSE First(at)

\* the character at position i, "" when the text has no such position
CharAt(line, i) == IF i >= 1 /\ i <= Len(line) THEN Ch(line, i) ELSE ""

\* a decimal number stands at j: digits, a point or a comma, two digits
AmountAt(line, j) ==
    /\ IsDigitAt(line, j)
    /\ CharAt(line, DigitsEnd(line, j)) \in {".", ","}
    /\ IsDigitAt(line, DigitsEnd(line, j) + 1)
    /\ IsDigitAt(line, DigitsEnd(line, j) + 2)

\* its value, in thousandths
AmountValue(line, j) ==
    DigitsValue(line, j, DigitsEnd(line, j)) * 1000
        + DigitVal(Ch(line, DigitsEnd(line, j) + 1)) * 100
        + DigitVal(Ch(line, DigitsEnd(line, j) + 2)) * 10

\* the positions of a line where a total keyword, in any letter case, is
\* followed by a decimal number
TotalsAt(line) ==
    {i \in 1..Len(line) :
        \E n \in 1..Len(TotalKeywords) :
            /\ StartsWithAt(lower(line), TotalKeywords[n], i)
            /\ AmountAt(line, AfterSeparators(line, i + Len(TotalKeywords[n])))}

\* the number that follows the keyword at i
TotalAfter(line, i) ==
    LET n == CHOOSE n \in 1..Len(TotalKeywords) :
                 /\ StartsWithAt(lower(line), TotalKeywords[n], i)
                 /\ AmountAt(line, AfterSeparators(line, i + Len(TotalKeywords[n])))
    IN  AmountValue(line, AfterSeparators(line, i + Len(TotalKeywords[n])))

TotalLines == {n \in 1..Len(rx_lines) : TotalsAt(rx_lines[n]) # {}}

BottomTotalLine == rx_lines[Last(TotalLines)]

\* C15: _extract_total returns the value of the bottommost non-blank line in
\* which a total keyword, in any letter case, is followed by a decimal
\* number, whatever the lines above it hold, and None when there is no such
\* line; a text that ends in the line "Summe 9.28" gives 9.28.
C15_BottommostTotal ==
    TotalExtracted =>
        /\ TotalLines = {} => ~rx_total.some
        /\ TotalLines # {} =>
             /\ rx_total.some
             /\ rx_total.v.k
                  = TotalAfter(BottomTotalLine, First(TotalsAt(BottomTotalLine)))
        /\ (Len(rx_lines) > 0 /\ rx_lines[Len(rx_lines)] = "Summe 9.28") =>
             rx_total = SomeFlt(Flt(9280, FALSE))
        /\ (pc = "done" => result.transaction_details.total_amount = rx_total)

\* two total lines with different values: the lower one is returned
C15_TwoTotalLines ==
    /\ TotalExtracted
    /\ pc = "done"
    /\ rx_lines = <<"TOTAL: 12,50", "Summe 9.28">>
    /\ result.transaction_details.total_amount = SomeFlt(Flt(9280, FALSE))

\* RegexReceiptParser.parse has run _extract_items, which returned
ItemsExtracted ==
    /\ entry = "regex"
    /\ outcome # "raised"
    /\ pc \in {"total", "currency", "vat", "return", "done"}

\* a price stands at p and ends the text before position e: digits, a point
\* or a comma, two digits
PriceUpTo(line, p, e) == AmountAt(line, p) /\ DigitsEnd(line, p) + 3 = e

\* where the price starts after the quantity that ends before c: behind an
\* x with whitespace after it, or behind whitespace alone; 0 when neither
PriceStart(line, c, w) ==
    IF CharAt(line, w) \in {"x", "X"}
    THEN (IF FirstNonWs(line, w + 1) > w + 1 THEN FirstNonWs(line, w + 1) ELSE 0)
    ELSE (IF w > c THEN w ELSE 0)

\* the line reads: a name of a characters, whitespace, a quantity, an
\* optional x, whitespace, a price
QuantityForm(line, a) ==
    /\ FirstNonWs(line, a + 1) > a + 1
    /\ IsDigitAt(line, FirstNonWs(line, a + 1))
    /\ PriceStart(line, DigitsEnd(line, FirstNonWs(line, a + 1)),
                  FirstNonWs(line, DigitsEnd(line, FirstNonWs(line, a + 1)))) # 0
    /\ PriceUpTo(line,
                 PriceStart(line, DigitsEnd(line, FirstNonWs(line, a + 1)),
                     FirstNonWs(line, DigitsEnd(line, FirstNonWs(line, a + 1)))),
                 Len(line) + 1)

QuantityFormItem(line, a) ==
    [item |-> SubSeq(line, 1, a),
     quantity |-> DigitsValue(line, FirstNonWs(line, a + 1),
                              DigitsEnd(line, FirstNonWs(line, a + 1))),
     price |-> Flt(AmountValue(line,
                     PriceStart(line, DigitsEnd(line, FirstNonWs(line, a + 1)),
                       FirstNonWs(line, DigitsEnd(line, FirstNonWs(line, a + 1))))),
                   FALSE)]

\* what follows the price is nothing, or one uppercase letter with or without
\* whitespace before it
LetterOrEnd(line, r) ==
    \/ r = Len(line) + 1
    \/ FirstNonWs(line, r) = Len(line) /\ CharAt(line, Len(line)) \in DOMAIN LowerOf

\* the line reads: a name of a characters, whitespace, a price, an optional
\* uppercase letter
PriceForm(line, a) ==
    /\ FirstNonWs(line, a + 1) > a + 1
    /\ AmountAt(line, FirstNonWs(line, a + 1))
    /\ LetterOrEnd(line, DigitsEnd(line, FirstNonWs(line, a + 1)) + 3)

PriceFormItem(line, a) ==
    [item |-> SubSeq(line, 1, a), quantity |-> 1,
     price |-> Flt(AmountValue(line, FirstNonWs(line, a + 1)), FALSE)]

NamesTotal(name) ==
    \E n \in 1..Len(TotalKeywords) : contains(lower(name), TotalKeywords[n])

QuantityNames(line) == {a \in 1..Len(line) : QuantityForm(line, a)}

PriceNames(line) == {a \in 1..Len(line) : PriceForm(line, a)}

\* the items a line stands for: one of the first form, else one of the
\* second form unless its name holds a total keyword, else none
ItemsOfLine(line) ==
    IF QuantityNames(line) # {}
    THEN <<QuantityFormItem(line, First(QuantityNames(line)))>>
    ELSE IF PriceNames(line) = {} THEN <<>>
    ELSE IF NamesTotal(SubSeq(line, 1, First(PriceNames(line)))) THEN <<>>
    ELSE <<PriceFormItem(line, First(PriceNames(line)))>>

\* line by line, in the order of the lines
RECURSIVE ItemsOfLines(_)
ItemsOfLines(lines) ==
    IF Len(lines) = 0 THEN <<>>
    ELSE ItemsOfLine(lines[1]) \o ItemsOfLines(Tail(lines))

AddressFound ==
    /\ entry = "regex"
    /\ pc \in {"vat_number", "items", "total", "currency", "vat", "return", "done"}

\* the non-blank lines 2 to 11: the first 10 after line 1
TenAfterFirst(lines) == SubSeq(lines, 2, min(11, Len(lines)))

\* C17: the address is made of the lines among the first 10 non-blank lines
\* after line 1 (lines 2 to 11) that pass the postal-code or the street test,
\* joined with ", " in their order, and is None when no line of them passes;
\* for "Shop", "Main Street 5", "04109 Leipzig" it holds lines 2 and 3.
C17_AddressWindow ==
    AddressFound =>
        /\ rx_address
             = joined_or_none(SelectSeq(TenAfterFirst(rx_lines), is_address_line))
        /\ rx_lines = <<"Shop", "Main Street 5", "04109 Leipzig">> =>
             rx_address = Some("Main Street 5, 04109 Leipzig")

\* parse_json_response has validated the reply and post-processed the record
CurrencyNormalised == LlmDone /\ exc = "none"

\* the currency as the reply gives it, and as the call returns it
GivenCurrency == ValidatedRecord.transaction_details.currency

NormalisedCurrency == result.transaction_details.currency

\* the codes the alias table holds under exactly this key
CodesOf(key) ==
    {CURRENCY_ALIASES[i][2] :
        i \in {n \in 1..Len(CURRENCY_ALIASES) : CURRENCY_ALIASES[n][1] = key}}

\* the keys of the table that differ from the value in letter case at most
SameButCase(value) ==
    {CURRENCY_ALIASES[n][1] :
        n \in {i \in 1..Len(CURRENCY_ALIASES) :
                 lower(CURRENCY_ALIASES[i][1]) = lower(value)}}

TrimmedCurrency == strip(GivenCurrency.v)

SymbolAliases == {"@", "#", "$", "CHF", "kr", "kn", "Ft", "lei", "R$"}

\* C19: the alias lookup tells letter case apart for the symbol aliases: a
\* value that differs from a symbol alias in letter case only ("KR", "Kr",
\* "ft", "r$") is not mapped through that alias; it becomes its first 3
\* characters in uppercase.
C19_SymbolsCaseSensitive ==
    (/\ CurrencyNormalised
     /\ GivenCurrency.some
     /\ GivenCurrency.v \notin SymbolAliases
     /\ SameButCase(GivenCurrency.v) # {}
     /\ SameButCase(GivenCurrency.v) \subseteq SymbolAliases) =>
        NormalisedCurrency.v = UpTo(upper(GivenCurrency.v), 3)

---------------------------------------------------------------------------
(* The router: process_pdf, one record per call in flight *)

\* parser_factory.py: the values of the enum OCRBackend
OCRBackend == {"easyocr", "paddleocr", "unstructured"}

\* routers/receipt.py line 56: the content types process_pdf reads on
accepted_content_types == {"application/pdf", "application/octet-stream"}

\* how many calls are in flight
MaxRequests == 2

Requests == 1..MaxRequests

\* UploadFile.content_type as the client sent it; "none" for no header
ContentTypes ==
    {"application/pdf", "application/octet-stream", "text/plain", "none"}

\* the bytes file.read() yields
Uploads == {"", "%PDF"}

\* a call as FastAPI hands it to process_pdf; status 0: no response yet
Arrivals ==
    [content_type : ContentTypes, pdf_bytes : Uploads,
     ocr_backend : OCRBackend, pc : {"start"}, status : {0},
     raised : {"none"}, calls : {<<>>}, strategy : {"unread"},
     bound : {Unset}, ocr_text : {None}, ocr_runs : {<<>>},
     body : {NoValue}]

\* raise HTTPException(status_code=code): the call ends with that status
http_exception(req, code) ==
    [req EXCEPT !.pc = "done", !.status = code, !.raised = "HTTPException"]

\* an exception no handler takes: the server answers 500
unhandled(req, name) ==
    [req EXCEPT !.pc = "done", !.status = 500, !.raised = name]

\* what the parser's calls hold
ParserVars ==
    <<entry, response, pc, json_str, data, result, exc, outcome, RegexLocals,
      hy>>

\* parser_factory.py lines 6-9: the values of the enum ParsingStrategy
ParsingStrategy == {"regex", "llm", "hybrid"}

\* routers/receipt.py line 45: the strategy of a call that names none
DefaultStrategy == "hybrid"

\* parser_factory.py line 24
PDF_BYTES_STRATEGIES == {"hybrid"}

\* the text an extractor finds in the pages of an upload
PdfTexts == {"", " \n", "Shop\nTotal 9.28"}

\* what the LLM answers
LlmReplies == {Doc(ShopText, LatteMember), "oops"}

\* What the libraries and the service around a call do for one upload:
\* pdfplumber's text, whether PyMuPDF renders the pages (pdf_converter.py
\* line 14 raises otherwise), the OCR's text, whether the LLM service answers
\* (groq_client.py lines 53-57 raise otherwise) and its answer
Worlds ==
    [plumber_text : PdfTexts, renders : BOOLEAN, ocr_text : PdfTexts,
     llm_up : BOOLEAN, reply : LlmReplies]

\* parse_json_response on each text the parsers hand it in those worlds,
\* computed once
json_response == [s \in LlmReplies \cup {""} |-> parse_json_response(s)]

\* a merge that takes a source for text whenever it is not empty
merge_texts_unstripped(plumber_text, ocr_text) ==
    Join((IF plumber_text # ""
          THEN <<"=== Text extracted by pdfplumber (native text layer) ===\n"
                 \o plumber_text>>
          ELSE <<>>)
         \o (IF ocr_text # ""
             THEN <<"=== Text extracted by OCR (image-based) ===\n"
                    \o ocr_text>>
             ELSE <<>>),
         "\n\n")

\* hybrid_parser.py lines 58-75
merge_texts(plumber_text, ocr_text) ==
    Join((IF strip(plumber_text) # ""
          THEN <<"=== Text extracted by pdfplumber (native text layer) ===\n"
                 \o plumber_text>>
          ELSE <<>>)
         \o (IF strip(ocr_text) # ""
             THEN <<"=== Text extracted by OCR (image-based) ===\n"
                    \o ocr_text>>
             ELSE <<>>),
         "\n\n")

\* a call of HybridReceiptParser.parse in the world w, at its first line
hybrid_start(w) ==
    [w |-> w, pc |-> "plumber", plumber_text |-> "", ocr_text |-> None,
     merged |-> "", raw |-> "", calls |-> <<>>, raised |-> "none",
     value |-> NoValue]

\* the call h makes the call named
calling(h, name) == [h EXCEPT !.calls = Append(@, name)]

\* the exception named leaves the call h
raising(h, name) == [h EXCEPT !.pc = "done", !.raised = name]

\* return parse_json_response(...): p is what that call ended with
returning(h, p) ==
    IF p.raised THEN raising(h, p.exc)
    ELSE [h EXCEPT !.pc = "done", !.value = p.value]

\* hybrid_parser.py lines 35-56, one statement at a time
hybrid_step(h) ==
    CASE h.pc = "plumber" ->
            [calling(h, "extract_text_pdfplumber") EXCEPT
                !.pc = "images", !.plumber_text = h.w.plumber_text]
      [] h.pc = "images" ->
            IF h.w.renders
            THEN [calling(h, "pdf_to_images") EXCEPT !.pc = "ocr"]
            ELSE raising(calling(h, "pdf_to_images"), "FileDataError")
      [] h.pc = "ocr" ->
            [calling(h, "extract_text") EXCEPT
                !.pc = "merge", !.ocr_text = Some(h.w.ocr_text)]
      [] h.pc = "merge" ->
            [h EXCEPT !.pc = "check",
                      !.merged = merge_texts(h.plumber_text, h.ocr_text.v)]
      [] h.pc = "check" ->
            IF strip(h.merged) = "" THEN returning(h, json_response[""])
            ELSE [h EXCEPT !.pc = "chat"]
      [] h.pc = "chat" ->
            IF h.w.llm_up
            THEN [calling(h, "chat_completion") EXCEPT
                     !.pc = "parse", !.raw = h.w.reply]
            ELSE raising(calling(h, "chat_completion"), "RuntimeError")
      [] h.pc = "parse" -> returning(h, json_response[h.raw])

\* HybridReceiptParser.parse from the statement h stands at to its end
RECURSIVE hybrid_run(_)
hybrid_run(h) == IF h.pc = "done" THEN h ELSE hybrid_run(hybrid_step(h))

hybrid_parse(w) == hybrid_run(hybrid_start(w))

\* llm_parser.py lines 25-31
llm_parse(w) ==
    IF w.llm_up
    THEN returning(calling(hybrid_start(w), "chat_completion"),
                   json_response[w.reply])
    ELSE raising(calling(hybrid_start(w), "chat_completion"), "RuntimeError")

\* receipt_parser.py lines 23-31 on the items found
regex_record(text, lines, found) ==
    IF found.raised THEN Raised("ValueError")
    ELSE Returned([service_provider |->
                      [name |-> provider_name(lines),
                       address |-> find_address(top_lines(lines)),
                       vat_number |-> find_vat_number(text)],
                   transaction_details |->
                      [items |-> found.items,
                       currency |-> extract_currency(text),
                       total_amount |-> extract_total(lines),
                       vat |-> extract_vat(text)],
                   message |-> None])

regex_lines(text, lines) ==
    regex_record(text, lines, extract_items(lines, 1, <<>>))

\* receipt_parser.py lines 14-31 on each text the OCR finds, computed once
regex_response ==
    [text \in PdfTexts |-> regex_lines(text, stripped_lines(text, 1))]

regex_parse(text) == returning(hybrid_start(None), regex_response[text])

\* parser_factory.py lines 45-55 and the parse of the parser returned, for
\* the parsers that take the text
text_parse(strategy, raw_text, w) ==
    IF strategy = "regex" THEN regex_parse(raw_text) ELSE llm_parse(w)

\* ocr_engine.py lines 93-131: extract_text reads the pages with the EasyOCR
\* reader of _get_reader, whichever backend was selected
extract_text_backend(selected) == "easyocr"

\* the OCR runs among the calls made: the backend that read the pages and
\* the one ocr_engine._backend named then
ocr_runs_of(calls, selected, bound) ==
    [i \in 1..Cardinality({j \in 1..Len(calls) : calls[j] = "extract_text"})
        |-> [ran |-> extract_text_backend(selected), bound |-> bound]]

\* the call req made the calls of the parser's call p
with_calls(req, p) ==
    [req EXCEPT !.calls = @ \o p.calls,
                !.ocr_text = IF p.ocr_text.some THEN p.ocr_text ELSE @,
                !.ocr_runs =
                    @ \o ocr_runs_of(p.calls, req.ocr_backend, req.bound)]

\* return parser.parse(...): the record goes out with status 200, an
\* exception of the parser leaves process_pdf
respond(req, p) ==
    IF p.raised # "none" THEN unhandled(with_calls(req, p), p.raised)
    ELSE [with_calls(req, p) EXCEPT
             !.pc = "done", !.status = 200, !.body = p.value]

\* the calls of lines 74 and 77, as a parser's call records them
Rendered(w) ==
    IF w.renders
    THEN [calling(calling(hybrid_start(w), "pdf_to_images"), "extract_text")
             EXCEPT !.ocr_text = Some(w.ocr_text)]
    ELSE raising(calling(hybrid_start(w), "pdf_to_images"), "FileDataError")

\* routers/receipt.py lines 77-82 on the text read
after_extract(req, strategy, w) ==
    IF strip(w.ocr_text) = "" THEN http_exception(req, 422)
    ELSE respond(req, text_parse(strategy, w.ocr_text, w))

\* routers/receipt.py lines 74-82
text_path(req, strategy, w) ==
    IF w.renders THEN after_extract(with_calls(req, Rendered(w)), strategy, w)
    ELSE unhandled(with_calls(req, Rendered(w)), "FileDataError")

\* routers/receipt.py lines 67-82
parse_upload(req, strategy, w) ==
    IF strategy \in PDF_BYTES_STRATEGIES THEN respond(req, hybrid_parse(w))
    ELSE text_path(req, strategy, w)

\* the worlds that differ in what a call with the strategy meets
UploadWorlds(strategy) ==
    {w \in Worlds :
        /\ ~w.renders => w.ocr_text = "" /\ w.llm_up /\ w.reply = "oops"
        /\ ~w.llm_up => w.reply = "oops"
        /\ strategy = "regex" => w.llm_up /\ w.reply = "oops"
        /\ strategy \notin PDF_BYTES_STRATEGIES => w.plumber_text = ""}

\* ocr_engine._load_backend, which routers/receipt.py line 31 calls: the
\* backend the environment names becomes the process-wide one
load_backend(env) == env

\* the call req has bound its backend; it reads its query parameter
\* strategy and makes the calls named
entering(req, strategy, names) ==
    [req EXCEPT !.strategy = strategy, !.calls = @ \o names,
                !.bound = load_backend(req.ocr_backend)]

\* routers/receipt.py lines 56-59, up to the await of file.read()
CheckContentType(r) ==
    /\ requests[r].pc = "start"
    /\ requests' =
           [requests EXCEPT ![r] =
               IF requests[r].content_type \notin accepted_content_types
               THEN http_exception(requests[r], 400)
               ELSE [requests[r] EXCEPT !.pc = "read"]]
    /\ UNCHANGED <<environ, backend, ParserVars>>

\* a rejection of the empty upload placed after the switch of the backend
RejectEmptySwitched(r) ==
    /\ requests[r].pc = "read"
    /\ requests[r].pdf_bytes = ""
    /\ environ' = requests[r].ocr_backend
    /\ requests' = [requests EXCEPT ![r] = http_exception(requests[r], 400)]
    /\ UNCHANGED <<backend, ParserVars>>

\* routers/receipt.py lines 60-61: the upload read is empty
RejectEmpty(r) ==
    /\ requests[r].pc = "read"
    /\ requests[r].pdf_bytes = ""
    /\ requests' = [requests EXCEPT ![r] = http_exception(requests[r], 400)]
    /\ UNCHANGED <<environ, backend, ParserVars>>

\* routers/receipt.py lines 60 and 64, with _set_ocr_backend (lines 26-31):
\* line 28 writes the environment, line 31 asks ocr_engine for _load_backend,
\* which ocr_engine.py as it stands does not define, and the AttributeError
\* leaves the call
SetOcrBackend(r) ==
    /\ requests[r].pc = "read"
    /\ requests[r].pdf_bytes # ""
    /\ environ' = requests[r].ocr_backend
    /\ requests' =
           [requests EXCEPT ![r] =
               unhandled([requests[r] EXCEPT
                              !.calls = Append(@, "_set_ocr_backend")],
                         "AttributeError")]
    /\ UNCHANGED <<backend, ParserVars>>

\* routers/receipt.py lines 60 and 64-82 when _load_backend returns: the
\* backend is bound, the strategy read and the upload parsed
ProcessUpload(r) ==
    /\ requests[r].pc = "read"
    /\ requests[r].pdf_bytes # ""
    /\ environ' = requests[r].ocr_backend
    /\ backend' = load_backend(environ')
    /\ \E strategy \in ParsingStrategy : \E w \in UploadWorlds(strategy) :
           requests' =
               [requests EXCEPT ![r] =
                   parse_upload(entering(requests[r], strategy,
                                         <<"_set_ocr_backend",
                                           "get_llm_client", "get_parser">>),
                                strategy, w)]
    /\ UNCHANGED ParserVars

\* no call of a parser is under way
ParserIdle ==
    /\ entry = "none"
    /\ response = ""
    /\ pc = "done"
    /\ json_str = ""
    /\ data = JNull
    /\ result = NoValue
    /\ exc = "none"
    /\ outcome = "running"
    /\ rx_lines = <<>>
    /\ rx_name = ""
    /\ rx_currency = None
    /\ rx_address = None
    /\ rx_vat_number = None
    /\ rx_items = <<>>
    /\ rx_total = NoneFlt
    /\ rx_vat = None

\* routers/receipt.py line 23: the environment holds a backend's name or
\* nothing when the module is imported
RouterInit ==
    /\ requests \in [Requests -> Arrivals]
    /\ environ \in OCRBackend \cup {Unset}
    /\ backend = Unset
    /\ ParserIdle
    /\ hy = NoValue

RouterNext ==
    \/ \E r \in Requests : CheckContentType(r)
    \/ \E r \in Requests : RejectEmpty(r)
    \/ \E r \in Requests : SetOcrBackend(r)
    \/ \E r \in Requests : ProcessUpload(r)

RouterSpec == RouterInit /\ [][RouterNext]_vars

---------------------------------------------------------------------------
(* The router: process_batch, beside calls of process_pdf *)

\* how many files a batch holds at most
MaxFiles == 2

\* UploadFile.filename of the files of a batch, in upload order
Filenames == <<"a.pdf", "b.pdf", "c.pdf", "d.pdf">>

\* what a PDF of a batch meets: a blank page, a receipt, a receipt while the
\* LLM service is down, bytes PyMuPDF cannot render
BatchWorlds ==
    {w \in Worlds :
        /\ w.plumber_text = ""
        /\ w.reply = Doc(ShopText, LatteMember)
        /\ w.ocr_text # ""
        /\ ~w.renders => w.llm_up /\ w.ocr_text = " \n"
        /\ ~w.llm_up => w.ocr_text # " \n"}

\* a file of a batch, with what the libraries and the service will do for
\* it: one of a type not accepted, an empty one, a PDF in each world
FileKinds ==
    {[content_type |-> t, pdf_bytes |-> "", world |-> w] :
        t \in {"text/plain", "application/pdf"},
        w \in {v \in BatchWorlds : ~v.renders}}
    \cup {[content_type |-> "application/pdf", pdf_bytes |-> "%PDF",
           world |-> w] : w \in BatchWorlds}

\* the lists of at most n files
FileLists(n) ==
    UNION {{[i \in 1..k |->
                [filename |-> Filenames[i],
                 content_type |-> kinds[i].content_type,
                 pdf_bytes |-> kinds[i].pdf_bytes,
                 world |-> kinds[i].world]] :
               kinds \in [1..k -> FileKinds]} : k \in 0..n}

\* a call as FastAPI hands it to process_batch
BatchArrivals ==
    [files : FileLists(MaxFiles), ocr_backend : OCRBackend,
     pc : {"batch_start"}, status : {0}, raised : {"none"}, calls : {<<>>},
     strategy : {"unread"}, bound : {Unset}, ocr_text : {None},
     ocr_runs : {<<>>}, body : {NoValue}, i : {1}, results : {<<>>}]

\* routers/receipt.py lines 120-124, 130-134, 144-148 and 160-164
failed_result(file, error) ==
    [Filename |-> file.filename, Success |-> FALSE, Data |-> NoValue,
     Error |-> Some(error)]

\* routers/receipt.py lines 152-156
success_result(file, receipt) ==
    [Filename |-> file.filename, Success |-> TRUE, Data |-> receipt,
     Error |-> None]

\* the call req appends a result and turns to the next file
next_file(req, res) ==
    [req EXCEPT !.results = Append(@, res), !.i = @ + 1]

\* routers/receipt.py lines 167-173
batch_response(req) ==
    [req EXCEPT
        !.pc = "done", !.status = 200,
        !.body =
            [Total |-> Len(req.results),
             Successful |->
                 Cardinality({k \in 1..Len(req.results) :
                                 req.results[k].Success}),
             Failed |->
                 Len(req.results)
                     - Cardinality({k \in 1..Len(req.results) :
                                       req.results[k].Success}),
             Results |-> req.results]]

\* routers/receipt.py lines 117-128: the loop from file i on, up to the
\* await of the next read or past the last file
RECURSIVE loop_head(_)
loop_head(req) ==
    IF req.i > Len(req.files) THEN batch_response(req)
    ELSE IF req.files[req.i].content_type \notin accepted_content_types
    THEN loop_head(next_file(req,
             failed_result(req.files[req.i], "Invalid content type")))
    ELSE [req EXCEPT !.pc = "batch_read"]

\* routers/receipt.py lines 150-165 on a parser's call: its record as a
\* success, its exception as a failure with str(e)
parsed_result(req, p) ==
    next_file(with_calls(req, p),
              IF p.raised # "none"
              THEN failed_result(req.files[req.i], p.raised)
              ELSE success_result(req.files[req.i], p.value))

\* routers/receipt.py lines 141-150 on the text read
batch_after_extract(req, w) ==
    IF strip(w.ocr_text) = ""
    THEN next_file(req, failed_result(req.files[req.i],
                            "No text could be extracted from the PDF."))
    ELSE parsed_result(req, text_parse(req.strategy, w.ocr_text, w))

\* routers/receipt.py lines 137-165 on the bytes of file i
batch_parse(req, w) ==
    IF req.strategy \in PDF_BYTES_STRATEGIES
    THEN parsed_result(req, hybrid_parse(w))
    ELSE IF w.renders THEN batch_after_extract(with_calls(req, Rendered(w)), w)
    ELSE parsed_result(req, Rendered(w))

\* routers/receipt.py lines 128-165 for file i, its read over
batch_file(req, w) ==
    IF req.files[req.i].pdf_bytes = ""
    THEN next_file(req, failed_result(req.files[req.i],
                                      "Uploaded file is empty."))
    ELSE batch_parse(req, w)

\* routers/receipt.py lines 107-108
BatchRejectNoFiles(r) ==
    /\ requests[r].pc = "batch_start"
    /\ requests[r].files = <<>>
    /\ requests' = [requests EXCEPT ![r] = http_exception(requests[r], 400)]
    /\ UNCHANGED <<environ, backend, ParserVars>>

\* routers/receipt.py line 111 with _set_ocr_backend (lines 26-31) as
\* ocr_engine.py stands: the AttributeError of line 31, outside the try of
\* line 119, leaves process_batch
BatchSetOcrBackend(r) ==
    /\ requests[r].pc = "batch_start"
    /\ requests[r].files # <<>>
    /\ environ' = requests[r].ocr_backend
    /\ requests' =
           [requests EXCEPT ![r] =
               unhandled(calling(requests[r], "_set_ocr_backend"),
                         "AttributeError")]
    /\ UNCHANGED <<backend, ParserVars>>

\* routers/receipt.py lines 111-128 when _load_backend returns: the backend
\* is bound, the parser made and the loop entered
BatchEnter(r) ==
    /\ requests[r].pc = "batch_start"
    /\ requests[r].files # <<>>
    /\ environ' = requests[r].ocr_backend
    /\ backend' = load_backend(environ')
    /\ \E strategy \in ParsingStrategy :
           requests' =
               [requests EXCEPT ![r] =
                   loop_head(entering(requests[r], strategy,
                                      <<"_set_ocr_backend", "get_llm_client",
                                        "get_parser">>))]
    /\ UNCHANGED ParserVars

\* routers/receipt.py lines 128-165 for the file whose read was awaited,
\* then the loop up to the next await; the backend is the one bound by now
BatchFile(r) ==
    /\ requests[r].pc = "batch_read"
    /\ requests' =
           [requests EXCEPT ![r] =
               loop_head(batch_file(
                   [requests[r] EXCEPT !.bound = backend],
                   requests[r].files[requests[r].i].world))]
    /\ UNCHANGED <<environ, backend, ParserVars>>

\* a batch arrives beside calls of process_pdf that hold a PDF
BatchInit ==
    /\ requests \in
           {f \in [Requests -> BatchArrivals \cup Arrivals] :
               /\ f[1] \in BatchArrivals
               /\ \A r \in Requests \ {1} :
                      /\ f[r] \in Arrivals
                      /\ f[r].content_type = "application/pdf"
                      /\ f[r].pdf_bytes # ""}
    /\ environ = Unset
    /\ backend = Unset
    /\ ParserIdle
    /\ hy = NoValue

BatchNext ==
    \/ \E r \in Requests : BatchRejectNoFiles(r)
    \/ \E r \in Requests : BatchSetOcrBackend(r)
    \/ \E r \in Requests : BatchEnter(r)
    \/ \E r \in Requests : BatchFile(r)
    \/ \E r \in Requests : CheckContentType(r)
    \/ \E r \in Requests : SetOcrBackend(r)
    \/ \E r \in Requests : ProcessUpload(r)

BatchSpec == BatchInit /\ [][BatchNext]_vars

---------------------------------------------------------------------------
(* HybridReceiptParser.parse, called on its own *)

\* a statement of HybridReceiptParser.parse
HybridStep(at) ==
    /\ hy.pc = at
    /\ hy' = hybrid_step(hy)
    /\ UNCHANGED <<RouterVars, entry, response, pc, json_str, data, result,
                   exc, outcome, RegexLocals>>

\* hybrid_parser.py line 37
ExtractTextPdfplumber ==
    /\ HybridStep("plumber")
    /\ hy'.plumber_text = hy.w.plumber_text

\* hybrid_parser.py line 40
PdfToImages ==
    /\ HybridStep("images")
    /\ hy'.raised = "none" <=> hy.w.renders

\* hybrid_parser.py line 41
ExtractText ==
    /\ HybridStep("ocr")
    /\ hy'.ocr_text = Some(hy.w.ocr_text)

\* hybrid_parser.py line 44
MergeTexts ==
    /\ HybridStep("merge")
    /\ hy'.pc = "check"

\* hybrid_parser.py lines 46-48
CheckMerged ==
    /\ HybridStep("check")
    /\ hy'.pc \in {"chat", "done"}

\* hybrid_parser.py lines 51-55
ChatCompletion ==
    /\ HybridStep("chat")
    /\ hy'.raised = "none" <=> hy.w.llm_up

\* hybrid_parser.py line 56
ParseReply ==
    /\ HybridStep("parse")
    /\ hy'.pc = "done"

\* parse is called on an upload, in any of the worlds
HybridInit ==
    /\ hy \in {hybrid_start(w) : w \in Worlds}
    /\ requests = <<>>
    /\ environ = Unset
    /\ backend = Unset
    /\ ParserIdle

HybridNext ==
    \/ ExtractTextPdfplumber
    \/ PdfToImages
    \/ ExtractText
    \/ MergeTexts
    \/ CheckMerged
    \/ ChatCompletion
    \/ ParseReply

HybridSpec == HybridInit /\ [][HybridNext]_vars

---------------------------------------------------------------------------
(* Properties of the router *)

\* the upload of call r is one the claim names as rejected
WrongType(r) ==
    requests[r].content_type
        \notin {"application/pdf", "application/octet-stream"}

EmptyUpload(r) == ~WrongType(r) /\ requests[r].pdf_bytes = ""

Answered(r) == requests[r].pc = "done"

\* C20: process_pdf answers HTTP 400 to an upload whose content type is
\* neither application/pdf nor application/octet-stream and to an empty
\* upload, and only to those; a call so answered has made none of the calls
\* that follow the two checks, and no step of a call that is to be rejected
\* changes os.environ["OCR_BACKEND"]
C20_RejectedBeforeSwitch ==
    /\ [](\A r \in Requests :
            Answered(r) =>
                /\ (WrongType(r) \/ EmptyUpload(r)) <=> requests[r].status = 400
                /\ requests[r].status = 400 =>
                       /\ requests[r].calls = <<>>
                       /\ requests[r].raised = "HTTPException")
    /\ [][\A r \in Requests :
            (requests'[r] # requests[r] /\ (WrongType(r) \/ EmptyUpload(r)))
                => environ' = environ]_vars

\* one call was rejected for its content type and another for its empty
\* upload, each asking for a backend other than the one selected
C20_BothRejections ==
    \E r, q \in Requests :
        /\ Answered(r) /\ WrongType(r) /\ requests[r].status = 400
        /\ Answered(q) /\ EmptyUpload(q) /\ requests[q].status = 400
        /\ requests[r].ocr_backend # environ
        /\ requests[q].ocr_backend # environ

---------------------------------------------------------------------------
(* Properties of the sanitizer's search for the object *)

\* the reply once its closed reasoning blocks are removed (lines 94-99)
AfterClosedRemoval == strip_closed_think(strip(response))

HasMarker(s) == \E j \in 1..Len(s) : StartsWithAt(s, ThinkOpen, j)

\* where the first opening marker of s stands
MarkerAt(s) ==
    First({j \in 1..Len(s) : StartsWithAt(s, ThinkOpen, j)})

\* the opening braces of s at or after position m
BracesFrom(s, m) == {j \in m..Len(s) : Ch(s, j) = "{"}

\* s from the first of the braces, nothing when there is none
FromFirstOf(s, braces) == IF braces = {} THEN "" ELSE From(s, First(braces))

\* the text that is to be kept of s, in which a marker remains
KeptAfterMarker(s) == FromFirstOf(s, BracesFrom(s, MarkerAt(s)))

\* the statement of C22 for the text s left by the removal of closed blocks
UnclosedThinkHandled(s) ==
    HasMarker(s) =>
        /\ pc = "fences" => json_str = KeptAfterMarker(s)
        /\ pc = "done" /\ KeptAfterMarker(s) = "" =>
               /\ outcome = "returned"
               /\ exc = "ValueError"
               /\ result = FallbackRecord

\* C22: when an opening marker remains after the closed blocks are removed,
\* the text kept is the one from the first opening brace at or after the
\* first marker; when no brace follows the marker nothing is kept and the
\* call returns the fallback record, whatever stands before the marker.
C22_UnclosedThink ==
    entry = "llm" /\ pc \in {"fences", "done"} =>
        UnclosedThinkHandled(AfterClosedRemoval)

\* a complete receipt object followed by a marker that is never closed
C22_ObjectBeforeMarker ==
    /\ LlmDone
    /\ response = Object(Member("ServiceProvider", ShopText)
                         \o Member("TransactionDetails", "{}")) \o ThinkOpen
    /\ ConformingObject(UpTo(response, Len(response) - Len(ThinkOpen)))
    /\ HasMarker(AfterClosedRemoval)
    /\ KeptAfterMarker(AfterClosedRemoval) = ""
    /\ result = FallbackRecord

\* the reply holds no reasoning marker and does not open with a fence
PlainReply(s) == ~HasMarker(s) /\ ~StartsWithAt(strip(s), Fence, 1)

OpeningBraces(s) == {j \in 1..Len(s) : Ch(s, j) = "{"}

ClosingBracesFrom(s, b) == {j \in b..Len(s) : Ch(s, j) = "}"}

\* s from position b to the last of the closing braces; where none follows
\* b, to the end of s
UpToLastOf(s, b, closes) ==
    IF closes = {} THEN From(s, b) ELSE SubSeq(s, b, Last(closes))

SpanFrom(s, b) == UpToLastOf(s, b, ClosingBracesFrom(s, b))

\* s from its first opening brace to its last closing brace
BraceSpan(s) == SpanFrom(s, First(OpeningBraces(s)))

\* prose before the object, free of "{", and after it, free of "}"
LeadingProse == {"", " ", "Here it is: ", "} so: "}

TrailingProse == {"", "\n", " Done.", " {end"}

\* the statement of C23 for the object J between the prose P and S
ProseTransparent(P, J, S) ==
    response = P \o J \o S /\ PlainReply(response) /\ ConformingObject(J) =>
        /\ outcome = "returned"
        /\ ~parse_json_response(J).raised
        /\ result = parse_json_response(J).value

---------------------------------------------------------------------------
(* Properties of the heuristic parser's searches over the whole text *)

\* the call of RegexReceiptParser.parse has run _find_vat_number
VatNumberSearched ==
    entry = "regex" /\ pc \in {"items", "total", "currency", "vat", "return", "done"}

\* what each of the three patterns finds in the text, in their order
VatNumberMatches(text) ==
    [n \in 1..3 |-> re_search_any_ic(vat_number_patterns[n], text)]

\* the statement of C24 for the matches found
HighestPriorityCapture(text, found) ==
    /\ \A n \in 1..3 :
           found[n].ok /\ (\A k \in 1..(n - 1) : ~found[k].ok) =>
               /\ rx_vat_number.some
               /\ rx_vat_number.v = strip(group(text, found[n], 1))
    /\ (\A n \in 1..3 : ~found[n].ok) => ~rx_vat_number.some

CurrencyExtracted == entry = "regex" /\ pc \in {"vat", "return", "done"}

\* the codes of the table in the order the claim gives
PriorityOrder ==
    <<"EUR", "USD", "GBP", "CHF", "CAD", "CNY", "SEK", "CZK", "PLN">>

\* the entries of the table whose pattern occurs somewhere in the text
Occurring(text) ==
    {i \in 1..Len(PriorityOrder) : currency_pattern_found(text, i)}

\* a German or French keyword stands in the text as a word
KeywordOccurs(text) ==
    \/ \E w \in GermanKeywords : search_word(lower(text), w)
    \/ \E w \in FrenchKeywords : search_word(text, w)

\* the statement of C25 for the entries that occur
FirstInPriority(text, hits) ==
    /\ \A i \in hits :
           (\A k \in hits : i <= k) => rx_currency = Some(PriorityOrder[i])
    /\ hits = {} =>
           rx_currency = IF KeywordOccurs(text) THEN Some("EUR") ELSE None
    /\ \A i \in 1..Len(PriorityOrder) : \A lit \in currency_map[i][2] :
           contains(text, lit) /\ (\A k \in 1..(i - 1) : k \notin hits) =>
               rx_currency = Some(PriorityOrder[i])

\* C25: _extract_currency returns the first code, in the order EUR, USD, GBP,
\* CHF, CAD, CNY, SEK, CZK, PLN, whose pattern occurs anywhere in the text,
\* wherever each occurs; when none occurs it returns EUR for a German or
\* French keyword and None otherwise; each code is returned for each of its
\* literals when no pattern of an earlier code occurs in the text.
C25_CurrencyPriority ==
    /\ \A i \in 1..Len(PriorityOrder) : currency_map[i][1] = PriorityOrder[i]
    /\ CurrencyExtracted => FirstInPriority(response, Occurring(response))

\* the Swiss code stands after the Polish one in the text and before it in
\* the table
C25_LaterInTextWins ==
    /\ entry = "regex" /\ pc = "done"
    /\ response = "PLN 5 CHF"
    /\ Occurring(response) = {4, 9}
    /\ find(response, "PLN", 1) < find(response, "CHF", 1)
    /\ rx_currency = Some("CHF")

\* C26: no item of a record returned by RegexReceiptParser.parse has a name
\* that holds a total keyword, in any letter case, whichever of the two item
\* patterns its line matched.
C26_NoTotalAmongItems ==
    entry = "regex" /\ pc = "done" /\ outcome = "returned" =>
        \A i \in 1..Len(ReturnedItems) : ~NamesTotal(ReturnedItems[i].item)

\* C27: _normalise_currency is idempotent: applied to the currency of a
\* record that postprocess returned, which it has normalised, it gives that
\* currency again.
C27_NormaliseIdempotent ==
    CurrencyNormalised /\ NormalisedCurrency.some =>
        normalise_currency(NormalisedCurrency) = NormalisedCurrency

---------------------------------------------------------------------------
(* Properties of process_pdf past its two checks *)

\* the OCR ran for call r and found no text, or whitespace only
OcrFoundNoText(r) ==
    requests[r].ocr_text.some /\ strip(requests[r].ocr_text.v) = ""

\* C21: a call of process_pdf that names no strategy, for whose non-empty
\* upload the OCR finds no text or whitespace only, is answered with HTTP
\* 422 and no receipt record.
C21_NoTextUnprocessable ==
    \A r \in Requests :
        (/\ Answered(r)
         /\ requests[r].pdf_bytes # ""
         /\ requests[r].strategy = DefaultStrategy
         /\ OcrFoundNoText(r)) =>
            requests[r].status = 422 /\ requests[r].body = NoValue

---------------------------------------------------------------------------
(* Properties of HybridReceiptParser.parse *)

\* how many times the call h called the LLM client's chat_completion
ChatCompletions(h) ==
    Cardinality({i \in 1..Len(h.calls) : h.calls[i] = "chat_completion"})

\* both sources yielded a text to the call h
BothYielded(h) == h.pc = "done" /\ h.ocr_text.some

\* the call h ended as parse_json_response ends on the text
EndsAs(h, text) ==
    IF parse_json_response(text).raised
    THEN h.raised = parse_json_response(text).exc
    ELSE h.raised = "none" /\ h.value = parse_json_response(text).value

---------------------------------------------------------------------------
(* Properties of process_batch *)

\* call r is one of process_batch
IsBatch(r) == "files" \in DOMAIN requests[r]

InvalidFile(file) == file.content_type \notin accepted_content_types

EmptyFile(file) == ~InvalidFile(file) /\ file.pdf_bytes = ""

\* a PDF from which neither extractor brings text
TextLessFile(file) ==
    /\ ~InvalidFile(file) /\ file.pdf_bytes # ""
    /\ file.world.renders
    /\ Blank(file.world.plumber_text) /\ Blank(file.world.ocr_text)

\* a PDF whose processing raises: the pages do not render, or the parser is
\* to ask the LLM and the service is down
RaisingFile(file, strategy) ==
    /\ ~InvalidFile(file) /\ file.pdf_bytes # ""
    /\ \/ ~file.world.renders
       \/ /\ ~Blank(file.world.ocr_text)
          /\ ~file.world.llm_up
          /\ strategy # "regex"

FailedResult(res) == ~res.Success /\ res.Error.some /\ res.Data = NoValue

\* the answer of batch r counts its results as the claim says
CountsAddUp(files, body) ==
    /\ Len(body.Results) = Len(files)
    /\ \A k \in 1..Len(files) : body.Results[k].Filename = files[k].filename
    /\ body.Total = Len(files)
    /\ body.Successful + body.Failed = body.Total
    /\ body.Successful =
           Cardinality({k \in 1..Len(body.Results) : body.Results[k].Success})

\* C29: process_batch, called with a list of files that is not empty,
\* returns one result per file in upload order, with Total the number of
\* files, Successful + Failed = Total and Successful the number of results
\* with Success true; a file that is invalid, empty, text-less or whose
\* processing raises has a failed result (Success false, Error set, no
\* Data).
C29_BatchAccounting ==
    \A r \in Requests :
        (IsBatch(r) /\ requests[r].pc = "done" /\ requests[r].files # <<>>) =>
            /\ requests[r].status = 200
            /\ requests[r].body # NoValue
            /\ CountsAddUp(requests[r].files, requests[r].body)
            /\ \A k \in 1..Len(requests[r].files) :
                   (\/ InvalidFile(requests[r].files[k])
                    \/ EmptyFile(requests[r].files[k])
                    \/ TextLessFile(requests[r].files[k])
                    \/ RaisingFile(requests[r].files[k],
                                   requests[r].strategy)) =>
                       FailedResult(requests[r].body.Results[k])

---------------------------------------------------------------------------
(* Properties of the selected backend under concurrent calls *)

\* every OCR run of call r read with the backend r selected, at a time when
\* the process-wide binding was the one r wrote
OwnBackendThroughout(r) ==
    \A k \in 1..Len(requests[r].ocr_runs) :
        /\ requests[r].ocr_runs[k].ran = requests[r].ocr_backend
        /\ requests[r].ocr_runs[k].bound = requests[r].ocr_backend

\* C30: when two calls that select different backends are handled
\* concurrently, interleaving at the awaits of process_pdf and
\* process_batch, every OCR run made for a call, each file of a batch
\* included, reads with the backend that call selected, and the
\* process-wide binding in force at the run is never the other call's.
C30_OwnBackend ==
    \A r, q \in Requests :
        requests[r].ocr_backend # requests[q].ocr_backend =>
            OwnBackendThroughout(r)
=============================================================================
